---------------------------- MODULE Spec2Model ----------------------------
(***************************************************************************)
(* Command dispatch, role-based access control and the scheduled-broadcast *)
(* loop of the bot framework.                                              *)
(*                                                                         *)
(* The persisted store (DatabaseManager) is modelled table by table, the   *)
(* role manager and the access decision as operators over the roles table, *)
(* the message router as one action per inbound event, and the scheduler   *)
(* thread as a small program-counter machine whose steps interleave with   *)
(* the foreground events at the granularity of one store operation.        *)
(***************************************************************************)
EXTENDS Integers, Sequences, FiniteSets, TLC

VARIABLES
    roles,      \* roles table: user_id -> "admin" | "superadmin" | NoRow
    admins,     \* TelegramBot.admins, the list AdminTools keeps as admin_ids
    commands,   \* CommandRegistry.commands: name -> [handler, role]
    users,      \* users table: rows [chat_id, chat_type], in row order
    tzSetting,  \* settings table, key "timezone"
    clock,      \* the wall clock, as a UTC instant in ticks
    scheduled,  \* scheduled_messages table, in id order
    sched,      \* the scheduler thread: its position and its locals
    running,    \* AdminTools.running
    last,       \* what the router did with the event it handled last, if
                \* that was the latest operation
    lastRole,   \* the promote_user / demote_user call of the latest operation
    denials,    \* every (cause, text) the router has sent as a denial
    deliveries, \* the (broadcast id, chat id) pairs the scheduler sent, and sent again
    plugins,    \* the plugin objects, PluginManager.plugins and TelegramBot.plugins
    store       \* DatabaseManager.lock, and what is left of the store
                \* operation each thread is in

vars == <<roles, admins, commands, users, tzSetting, clock, scheduled, sched,
          running, last, lastRole, denials, deliveries, plugins, store>>

-----------------------------------------------------------------------------
(* Identifiers and small domains                                           *)

\* Telegram user ids seen by the model (a private chat's id is the user's id)
Users == {1, 2}

\* the first configured admin id, made superadmin at construction
FirstAdmin == 1

\* a roles/users row that does not exist
NoRow == "<no row>"

\* Python's None as a command's required role: no restriction
Unrestricted == "<None>"

\* by_user=None: no acting user
NoActor == 0

\* role names a caller can pass to register_command or promote_user
RoleNames == {"user", "moderator", "admin", "superadmin", "bogus"}

ChatKinds == {"private", "group", "supergroup"}

-----------------------------------------------------------------------------
(* DatabaseManager: roles table                                            *)

\* an add_role that would leave the table alone for a role it does not
\* store
add_role_keeps_row(tbl, user_id, role) ==
    IF role \notin {"admin", "superadmin"}
    THEN tbl
    ELSE [tbl EXCEPT ![user_id] = role]

\* add_role: only admin and superadmin are stored, any other role drops the row
add_role(tbl, user_id, role) ==
    IF role \notin {"admin", "superadmin"}
    THEN [tbl EXCEPT ![user_id] = NoRow]
    ELSE [tbl EXCEPT ![user_id] = role]

\* add_role on the rows of the table, in rowid order: DELETE removes the
\* user's rows; INSERT OR REPLACE removes the row that holds the same
\* user_id (the column is UNIQUE) and adds the new row at the end
add_role_rows(rows, user_id, role) ==
    LET others == SelectSeq(rows, LAMBDA r : r.user_id # user_id)
    IN  IF role \notin {"admin", "superadmin"} THEN others
        ELSE Append(others, [user_id |-> user_id, role |-> role])

\* get_roles followed by the loop of RoleManager.get_role: the role of the
\* first row of the user, "user" when there is none
get_role_rows(rows, user_id) ==
    IF \E i \in DOMAIN rows : rows[i].user_id = user_id
    THEN rows[CHOOSE i \in DOMAIN rows :
                /\ rows[i].user_id = user_id
                /\ \A j \in 1..(i - 1) : rows[j].user_id # user_id].role
    ELSE "user"

\* get_users_by_role
get_users_by_role(tbl, role) == {u \in DOMAIN tbl : tbl[u] = role}

-----------------------------------------------------------------------------
(* RoleManager                                                             *)

ROLE_HIERARCHY == <<"user", "admin", "superadmin">>

\* list.index, 0-based; -1 stands for the ValueError of a missing element
IndexOf(seq, x) ==
    IF \E i \in DOMAIN seq : seq[i] = x
    THEN (CHOOSE i \in DOMAIN seq : seq[i] = x) - 1
    ELSE -1

\* RoleManager.get_role: the row's role, "user" when there is no row
get_role(tbl, user_id) ==
    IF user_id \in DOMAIN tbl /\ tbl[user_id] # NoRow THEN tbl[user_id] ELSE "user"

\* RoleManager._compare_roles: index difference, -999 on an unknown role
compare_roles(r1, r2) ==
    IF IndexOf(ROLE_HIERARCHY, r1) = -1 \/ IndexOf(ROLE_HIERARCHY, r2) = -1
    THEN -999
    ELSE IndexOf(ROLE_HIERARCHY, r1) - IndexOf(ROLE_HIERARCHY, r2)

\* the permission test of promote_user: TRUE when the actor may not grant
PromoteRefusedMutant(tbl, new_role, by_user) ==
    by_user # NoActor /\ compare_roles(get_role(tbl, by_user), new_role) < 0

\* a permission test that would also be applied when no acting user is given
PromoteRefusedNoBypass(tbl, new_role, by_user) ==
    compare_roles(get_role(tbl, by_user), new_role) <= 0

PromoteRefused(tbl, new_role, by_user) ==
    by_user # NoActor /\ compare_roles(get_role(tbl, by_user), new_role) <= 0

\* RoleManager.promote_user: [ok |-> the return value, roles |-> the table after]
PromoteWritesFirstMutant(tbl, target_id, new_role, by_user) ==
    IF new_role \notin {ROLE_HIERARCHY[i] : i \in DOMAIN ROLE_HIERARCHY}
    THEN [ok |-> FALSE, roles |-> tbl]
    ELSE IF PromoteRefused(tbl, new_role, by_user)
    THEN [ok |-> FALSE, roles |-> add_role(tbl, target_id, new_role)]
    ELSE [ok |-> TRUE, roles |-> add_role(tbl, target_id, new_role)]

promote_user(tbl, target_id, new_role, by_user) ==
    IF new_role \notin {ROLE_HIERARCHY[i] : i \in DOMAIN ROLE_HIERARCHY}
    THEN [ok |-> FALSE, roles |-> tbl]
    ELSE IF PromoteRefused(tbl, new_role, by_user)
    THEN [ok |-> FALSE, roles |-> tbl]
    ELSE [ok |-> TRUE, roles |-> add_role(tbl, target_id, new_role)]

\* the role demote_user writes: one step down the hierarchy
DemotedRoleMutant(current_role) == ROLE_HIERARCHY[1]

DemotedRole(current_role) ==
    ROLE_HIERARCHY[(IndexOf(ROLE_HIERARCHY, current_role) - 1) + 1]

\* RoleManager.demote_user
demote_user(tbl, target_id, by_user) ==
    LET current_role == get_role(tbl, target_id) IN
    IF current_role = "user"
    THEN [ok |-> FALSE, roles |-> tbl]
    ELSE IF by_user # NoActor
            /\ compare_roles(get_role(tbl, by_user), current_role) <= 0
    THEN [ok |-> FALSE, roles |-> tbl]
    ELSE [ok |-> TRUE, roles |-> add_role(tbl, target_id, DemotedRole(current_role))]

-----------------------------------------------------------------------------
(* AccessControl                                                           *)

\* the hierarchy has_role ranks against
AccessHierarchy == <<"user", "moderator", "admin", "superadmin">>

\* AccessControl.has_role: index comparison, False on a ValueError
has_role_mutant(tbl, user_id, required_role) ==
    IndexOf(AccessHierarchy, required_role) # -1

has_role(tbl, user_id, required_role) ==
    LET user_role == get_role(tbl, user_id) IN
    IF IndexOf(AccessHierarchy, user_role) = -1
       \/ IndexOf(AccessHierarchy, required_role) = -1
    THEN FALSE
    ELSE IndexOf(AccessHierarchy, user_role) >= IndexOf(AccessHierarchy, required_role)

\* the rank table of the plugin boundary: user 1, admin 2, superadmin 3,
\* any other name 0
rank(role) ==
    CASE role = "user" -> 1
      [] role = "admin" -> 2
      [] role = "superadmin" -> 3
      [] OTHER -> 0

-----------------------------------------------------------------------------
(* Message text                                                            *)
(*                                                                         *)
(* A text is the sequence of its whitespace-separated parts, as            *)
(* text.split() gives them.  The first part is a sequence of characters,   *)
(* so that the router's pattern match, lower-casing and '@' truncation are *)
(* computed; the later parts are words (an id, a role name, a target, a    *)
(* wall-clock tick in decimal).                                            *)

LowerLetters == <<"a", "b", "c", "d", "e", "f", "g", "h", "i", "j", "k", "l", "m",
                  "n", "o", "p", "q", "r", "s", "t", "u", "v", "w", "x", "y", "z">>
UpperLetters == <<"A", "B", "C", "D", "E", "F", "G", "H", "I", "J", "K", "L", "M",
                  "N", "O", "P", "Q", "R", "S", "T", "U", "V", "W", "X", "Y", "Z">>
DigitChars == {"0", "1", "2", "3", "4", "5", "6", "7", "8", "9"}

\* the character class [a-zA-Z0-9_]
WordChars ==
    {LowerLetters[i] : i \in DOMAIN LowerLetters}
        \cup {UpperLetters[i] : i \in DOMAIN UpperLetters}
        \cup DigitChars \cup {"_"}

\* str.lower on one character
LowerChar(c) ==
    IF \E i \in DOMAIN UpperLetters : UpperLetters[i] = c
    THEN LowerLetters[CHOOSE i \in DOMAIN UpperLetters : UpperLetters[i] = c]
    ELSE c

\* re.match(r"^/([a-zA-Z0-9_]+)", text.strip())
IsCommandText(parts) ==
    /\ Len(parts) >= 1
    /\ Len(parts[1]) >= 2
    /\ parts[1][1] = "/"
    /\ parts[1][2] \in WordChars

\* parts[0][1:].lower(), then split('@')[0] when it holds an '@'
CommandName(parts) ==
    LET raw == Tail(parts[1])
        lowered == [i \in DOMAIN raw |-> LowerChar(raw[i])]
        ats == {i \in DOMAIN lowered : lowered[i] = "@"}
    IN  IF ats = {} THEN lowered
        ELSE SubSeq(lowered, 1, (CHOOSE i \in ats : \A j \in ats : i <= j) - 1)

\* the command names of the model, as character sequences
cmd_start == <<"s", "t", "a", "r", "t">>
cmd_help == <<"h", "e", "l", "p">>
cmd_info == <<"i", "n", "f", "o">>
cmd_promote_user == <<"p", "r", "o", "m", "o", "t", "e", "_", "u", "s", "e", "r">>
cmd_demote_user == <<"d", "e", "m", "o", "t", "e", "_", "u", "s", "e", "r">>
cmd_create_poll == <<"c", "r", "e", "a", "t", "e", "_", "p", "o", "l", "l">>
cmd_broadcast == <<"b", "r", "o", "a", "d", "c", "a", "s", "t">>
cmd_schedule_message == <<"s", "c", "h", "e", "d", "u", "l", "e", "_", "m", "e", "s", "s", "a", "g", "e">>
cmd_list_scheduled == <<"l", "i", "s", "t", "_", "s", "c", "h", "e", "d", "u", "l", "e", "d">>
cmd_cancel_scheduled == <<"c", "a", "n", "c", "e", "l", "_", "s", "c", "h", "e", "d", "u", "l", "e", "d">>
cmd_settings == <<"s", "e", "t", "t", "i", "n", "g", "s">>
cmd_set == <<"s", "e", "t">>
cmd_weather == <<"w", "e", "a", "t", "h", "e", "r">>
cmd_weather_info == <<"w", "e", "a", "t", "h", "e", "r", "_", "i", "n", "f", "o">>
cmd_nope == <<"n", "o", "p", "e">>

\* "/" + name, as typed
Slash(name) == <<"/">> \o name

\* the decimal texts of the numbers the model's messages carry
IntTexts == <<"0", "1", "2", "3", "4", "5", "6", "7", "8", "9">>

\* whether int(s) succeeds
IsIntText(s) == \E i \in DOMAIN IntTexts : IntTexts[i] = s

\* int(s), for a text it succeeds on
ParseInt(s) == (CHOOSE i \in DOMAIN IntTexts : IntTexts[i] = s) - 1

\* str(n)
IntText(n) == IntTexts[n + 1]

-----------------------------------------------------------------------------
(* CommandRegistry                                                         *)

\* a register that would keep the entry a name already has
register_keep_first(reg, command, handler_func, required_role) ==
    [c \in DOMAIN reg \cup {command} |->
        IF c \in DOMAIN reg THEN reg[c]
        ELSE [handler |-> handler_func, role |-> required_role]]

\* CommandRegistry.register: store or overwrite
register(reg, command, handler_func, required_role) ==
    [c \in DOMAIN reg \cup {command} |->
        IF c = command THEN [handler |-> handler_func, role |-> required_role]
        ELSE reg[c]]

has_command(reg, command) == command \in DOMAIN reg

get_required_role(reg, command) ==
    IF command \in DOMAIN reg THEN reg[command].role ELSE Unrestricted

get_handler(reg, command) ==
    IF command \in DOMAIN reg THEN reg[command].handler ELSE "<None>"

\* the empty mapping
EmptyRegistry == [c \in {} |-> [handler |-> "<None>", role |-> Unrestricted]]

\* MessageHandler._register_system_commands, then
\* TelegramBot._register_admin_commands (which registers the same six again)
SystemCommandsRegistered ==
    LET r1 == register(EmptyRegistry, cmd_start, "handle_start", "user")
        r2 == register(r1, cmd_help, "handle_help", Unrestricted)
        r3 == register(r2, cmd_info, "handle_info", "user")
        r4 == register(r3, cmd_promote_user, "handle_promote_user", "superadmin")
        r5 == register(r4, cmd_demote_user, "handle_demote_user", "superadmin")
        r6 == register(r5, cmd_create_poll, "handle_create_poll", "admin")
        r7 == register(r6, cmd_broadcast, "_broadcast_handler", "admin")
        r8 == register(r7, cmd_schedule_message, "_schedule_handler", "admin")
        r9 == register(r8, cmd_list_scheduled, "_list_scheduled_handler", "admin")
        r10 == register(r9, cmd_cancel_scheduled, "_cancel_scheduled_handler", "admin")
        r11 == register(r10, cmd_settings, "show_settings", "admin")
    IN  register(r11, cmd_set, "set_setting", "admin")

-----------------------------------------------------------------------------
(* DatabaseManager: users table, in row order                              *)

\* an add_user that would store nothing
db_add_user_never(tbl, chat_id, chat_type) == tbl

\* add_user: INSERT OR IGNORE on the unique chat_id
db_add_user(tbl, chat_id, chat_type) ==
    IF \E i \in DOMAIN tbl : tbl[i].chat_id = chat_id
    THEN tbl
    ELSE Append(tbl, [chat_id |-> chat_id, chat_type |-> chat_type])

\* the chat_type values a target selects; no value for an unknown target
TargetKinds(target) ==
    CASE target = "individuals" -> {"private"}
      [] target = "groups" -> {"group", "supergroup"}
      [] target = "all" -> ChatKinds
      [] OTHER -> {}

\* the rows of a sequence that satisfy Keep, in order
RECURSIVE SelectRows(_, _)
SelectRows(tbl, keep) ==
    IF tbl = <<>> THEN <<>>
    ELSE IF Head(tbl) \in keep
         THEN <<Head(tbl)>> \o SelectRows(Tail(tbl), keep)
         ELSE SelectRows(Tail(tbl), keep)

\* get_chats_by_type: the chat ids of the rows the target selects
get_chats_by_type(tbl, target) ==
    LET rows == SelectRows(tbl, {r \in {tbl[i] : i \in DOMAIN tbl} :
                                     r.chat_type \in TargetKinds(target)})
    IN  [i \in DOMAIN rows |-> rows[i].chat_id]

\* get_all_chats
get_all_chats(tbl) == tbl

-----------------------------------------------------------------------------
(* Time                                                                    *)
(*                                                                         *)
(* The clock counts ticks of two hours of UTC.  An aware datetime is       *)
(* stored by sqlite3's adapter as its isoformat(" ") text: the local wall  *)
(* time, the microseconds when they are not zero, then the UTC offset.     *)
(* [local, frac, off] is that text: local in ticks, frac 0 for no          *)
(* microseconds part, off the offset in ticks.                             *)

Timezones == {"UTC", "Africa/Cairo"}

\* pytz utcoffset, in ticks (Africa/Cairo is two hours ahead of UTC)
TzOffset(tz_name) == IF tz_name = "Africa/Cairo" THEN 1 ELSE 0

\* the instant an aware datetime denotes
Instant(t) == t.local - t.off

\* SQLite's text comparison a <= b of two stored datetimes: the wall time
\* first; then "+" sorts before ".", so a text without microseconds sorts
\* before one with them; then the offsets ("+00:00" before "+02:00")
TextLE(a, b) ==
    IF a.local # b.local THEN a.local < b.local
    ELSE IF a.frac # b.frac THEN a.frac < b.frac
    ELSE a.off <= b.off

\* datetime.now(tz), adapted to text
NowText(clk, tz_name, frac) ==
    [local |-> clk + TzOffset(tz_name), frac |-> frac, off |-> TzOffset(tz_name)]

-----------------------------------------------------------------------------
(* DatabaseManager: scheduled_messages table, in id order                  *)

\* add_scheduled_message: a new row, sent defaulting to 0
add_scheduled_message(tbl, target_type, message, send_time) ==
    Append(tbl, [id |-> Len(tbl) + 1, target_type |-> target_type,
                 message |-> message, send_time |-> send_time, sent |-> 0])

\* the WHERE clause of get_due_scheduled_messages
IsDueIgnoringSent(row, now) == TextLE(row.send_time, now)

IsDue(row, now) == row.sent = 0 /\ TextLE(row.send_time, now)

\* get_due_scheduled_messages: the due rows as {id, target, text, send_time}
get_due_scheduled_messages(tbl, now) ==
    LET rows == SelectRows(tbl, {r \in {tbl[i] : i \in DOMAIN tbl} : IsDue(r, now)})
    IN  [i \in DOMAIN rows |->
            [id |-> rows[i].id, target |-> rows[i].target_type,
             text |-> rows[i].message, send_time |-> rows[i].send_time]]

\* an UPDATE that would lack the WHERE clause
mark_scheduled_all_sent(tbl, msg_id) ==
    [i \in DOMAIN tbl |-> [tbl[i] EXCEPT !.sent = 1]]

\* mark_scheduled_as_sent: UPDATE ... SET sent = 1 WHERE id = ?
mark_scheduled_as_sent(tbl, msg_id) ==
    [i \in DOMAIN tbl |-> IF tbl[i].id = msg_id THEN [tbl[i] EXCEPT !.sent = 1]
                          ELSE tbl[i]]

\* get_pending_scheduled_messages: sent = 0 (the order by send_time is not
\* needed by the operations modelled here)
get_pending_scheduled_messages(tbl) ==
    SelectRows(tbl, {r \in {tbl[i] : i \in DOMAIN tbl} : r.sent = 0})

-----------------------------------------------------------------------------
(* DatabaseManager: the lock                                               *)
(*                                                                         *)
(* A store operation is the sequence of steps its thread still has to      *)
(* take: "acquire" and "release" are the entry to and the exit from a      *)
(* "with self.lock, self._connect() as conn" block, any other step is the  *)
(* statement executed and committed inside it.                             *)

\* the two threads that use the store
Actors == {"handler", "scheduler"}

\* with self.lock, self._connect() as conn: <step>
with_lock(op, id, text) ==
    <<[op |-> "acquire", id |-> 0, text |-> ""],
      [op |-> op, id |-> id, text |-> text],
      [op |-> "release", id |-> 0, text |-> ""]>>

\* an add_entry that would read the columns and the timezone setting
\* inside its own locked block
add_entry_nested ==
    <<[op |-> "acquire", id |-> 0, text |-> ""]>>
        \o with_lock("get_table_columns", 0, "")
        \o with_lock("get_setting", 0, "")
        \o <<[op |-> "insert", id |-> 0, text |-> ""],
             [op |-> "release", id |-> 0, text |-> ""]>>

\* add_entry: get_table_columns and get_setting each take and release the
\* lock before the block of the INSERT takes it
add_entry ==
    with_lock("get_table_columns", 0, "") \o with_lock("get_setting", 0, "")
        \o with_lock("insert", 0, "")

\* threading.Lock() free, no thread inside a store operation
StoreIdle == [lock |-> "free", code |-> [a \in Actors |-> <<>>]]

-----------------------------------------------------------------------------
(* Outward texts                                                           *)

\* the router's one denial text (the leading warning sign is left out)
security_message ==
    "This command either doesn't exist or you don't have permission to use it."

\* the text of AccessControl.require_role's own denial
require_role_message == "You don't have permission for this command."

\* _send_error_message
error_message == "Sorry, something went wrong processing that request."

\* what the router sends when the command is not in the registry
NotFoundReply(command) == security_message

\* what the router sends when the caller's role is insufficient
DeniedReplyMutant(command, required_role) == require_role_message

DeniedReply(command, required_role) == security_message

\* one bot.send_message call
Send(chat_id, text) == [to |-> chat_id, text |-> text]

-----------------------------------------------------------------------------
(* Command handlers                                                        *)
(*                                                                         *)
(* A handler is an operator from the message (sender u, chat id chat,      *)
(* chat kind, parts) and the current state to its effect: the tables and   *)
(* lists after it, the messages it sent, the role call it made, and        *)
(* whether it raised.                                                      *)

NoRoleCall == [op |-> "none", target |-> 0, new_role |-> "", by |-> NoActor,
               ok |-> FALSE, before |-> "", after |-> "", actor_role |-> "",
               changed |-> FALSE]

\* the record of one promote_user / demote_user call on table tbl
RoleCall(op, tbl, target, new_role, by, res) ==
    [op |-> op, target |-> target, new_role |-> new_role, by |-> by,
     ok |-> res.ok, before |-> get_role(tbl, target),
     after |-> get_role(res.roles, target),
     actor_role |-> IF by = NoActor THEN "" ELSE get_role(tbl, by),
     changed |-> res.roles # tbl]

Effect(out) ==
    [roles |-> roles, admins |-> admins, scheduled |-> scheduled,
     tz |-> tzSetting, out |-> out, call |-> NoRoleCall, raised |-> FALSE]

\* SystemCommands.handle_start
handle_start(u, chat, kind, parts) == Effect(<<Send(chat, "Welcome")>>)

\* SystemCommands.handle_help: privileged callers in a group are answered
\* privately
handle_help(u, chat, kind, parts) ==
    IF kind \in {"group", "supergroup"} /\ get_role(roles, u) \in {"admin", "superadmin"}
    THEN Effect(<<Send(u, "Bot Help"), Send(chat, "Sent your role commands privately.")>>)
    ELSE Effect(<<Send(chat, "Bot Help")>>)

\* SystemCommands.handle_info
handle_info(u, chat, kind, parts) == Effect(<<Send(chat, "Bot info")>>)

\* AdminCommands.handle_promote_user
handle_promote_user(u, chat, kind, parts) ==
    IF Len(parts) < 3
    THEN Effect(<<Send(chat, "Usage: /promote_user <user_id> <role>")>>)
    ELSE IF ~IsIntText(parts[2])
    THEN Effect(<<Send(chat, "Error: invalid literal for int()")>>)
    ELSE
        LET user_id == ParseInt(parts[2])
            new_role == parts[3]
            res == promote_user(roles, user_id, new_role, u)
            call == RoleCall("promote", roles, user_id, new_role, u, res)
        IN  IF res.ok
            THEN [Effect(IF new_role = "admin"
                         THEN <<Send(user_id, "You have been promoted to admin!"),
                                Send(chat, "Promoted user")>>
                         ELSE <<Send(chat, "Promoted user")>>)
                  EXCEPT !.roles = res.roles, !.call = call,
                         !.admins = IF new_role = "admin"
                                    THEN admins \cup {user_id} ELSE admins]
            ELSE [Effect(<<Send(chat, "Failed to promote user")>>)
                  EXCEPT !.call = call]

\* AdminCommands.handle_demote_user
handle_demote_user(u, chat, kind, parts) ==
    IF Len(parts) < 2
    THEN Effect(<<Send(chat, "Usage: /demote_user <user_id>")>>)
    ELSE IF ~IsIntText(parts[2])
    THEN Effect(<<Send(chat, "Error: invalid literal for int()")>>)
    ELSE
        LET user_id == ParseInt(parts[2])
            res == demote_user(roles, user_id, u)
            call == RoleCall("demote", roles, user_id, "", u, res)
        IN  IF res.ok
            THEN [Effect(<<Send(chat, "Demoted user")>>)
                  EXCEPT !.roles = res.roles, !.call = call,
                         !.admins = IF get_role(res.roles, user_id) = "user"
                                    THEN admins \ {user_id} ELSE admins]
            ELSE [Effect(<<Send(chat, "Failed to demote user")>>)
                  EXCEPT !.call = call]

\* AdminCommands.handle_create_poll, for a text without a poll body
handle_create_poll(u, chat, kind, parts) ==
    IF kind # "private"
    THEN Effect(<<Send(chat, "Polls can only be created from private chat.")>>)
    ELSE Effect(<<Send(chat, "Usage: /create_poll")>>)

\* AdminTools._broadcast_handler
broadcast_handler(u, chat, kind, parts, chats) ==
    IF u \notin admins THEN Effect(<<>>)
    ELSE IF Len(parts) < 2 THEN Effect(<<Send(chat, "Usage: /broadcast <message>")>>)
    ELSE Effect([i \in DOMAIN chats |-> Send(chats[i].chat_id, "Broadcast")]
                    \o <<Send(chat, "Broadcast complete.")>>)

\* a handler that would store a broadcast whatever its send time
schedule_handler_any_time(u, chat, kind, parts) ==
    IF u \notin admins THEN Effect(<<>>)
    ELSE IF Len(parts) < 5
    THEN Effect(<<Send(chat, "Usage: /schedule_message <target> <YYYY-MM-DD> <HH:MM> <message>")>>)
    ELSE IF parts[2] \notin {"individuals", "groups", "all"}
    THEN Effect(<<Send(chat, "Invalid target.")>>)
    ELSE IF tzSetting \notin Timezones \/ parts[3] # "date" \/ ~IsIntText(parts[4])
    THEN Effect(<<Send(chat, "Invalid date/time format.")>>)
    ELSE [Effect(<<Send(chat, "Message scheduled")>>)
          EXCEPT !.scheduled =
              add_scheduled_message(scheduled, parts[2], parts[5],
                  [local |-> ParseInt(parts[4]), frac |-> 0,
                   off |-> TzOffset(tzSetting)])]

\* AdminTools._schedule_handler
schedule_handler(u, chat, kind, parts) ==
    IF u \notin admins THEN Effect(<<>>)
    ELSE IF Len(parts) < 5
    THEN Effect(<<Send(chat, "Usage: /schedule_message <target> <YYYY-MM-DD> <HH:MM> <message>")>>)
    ELSE IF parts[2] \notin {"individuals", "groups", "all"}
    THEN Effect(<<Send(chat, "Invalid target.")>>)
    ELSE IF tzSetting \notin Timezones \/ parts[3] # "date" \/ ~IsIntText(parts[4])
    THEN Effect(<<Send(chat, "Invalid date/time format.")>>)
    ELSE
        LET send_time == [local |-> ParseInt(parts[4]), frac |-> 0, off |-> TzOffset(tzSetting)]
        IN  IF Instant(send_time) <= clock
            THEN Effect(<<Send(chat, "Send time must be in the future.")>>)
            ELSE [Effect(<<Send(chat, "Message scheduled")>>)
                  EXCEPT !.scheduled =
                      add_scheduled_message(scheduled, parts[2], parts[5], send_time)]

\* AdminTools._list_scheduled_handler
list_scheduled_handler(u, chat, kind, parts) ==
    IF u \notin admins THEN Effect(<<>>)
    ELSE IF get_pending_scheduled_messages(scheduled) = <<>>
    THEN Effect(<<Send(chat, "No scheduled messages.")>>)
    ELSE Effect(<<Send(chat, "Scheduled list")>>)

\* AdminTools._cancel_scheduled_handler: DatabaseManager has neither
\* clear_all_scheduled nor delete_scheduled_message, so both calls raise
\* AttributeError; the one for "all" is outside the handler's try block
cancel_scheduled_handler(u, chat, kind, parts) ==
    IF u \notin admins THEN Effect(<<>>)
    ELSE IF Len(parts) < 2
    THEN Effect(<<Send(chat, "Usage: /cancel_scheduled <index|all>")>>)
    ELSE IF parts[2] = "all"
    THEN [Effect(<<>>) EXCEPT !.raised = TRUE]
    ELSE IF ~IsIntText(parts[2])
    THEN Effect(<<Send(chat, "Error cancelling scheduled message: invalid literal for int()")>>)
    ELSE IF ParseInt(parts[2]) - 1 < 0
            \/ ParseInt(parts[2]) - 1 >= Len(get_pending_scheduled_messages(scheduled))
    THEN Effect(<<Send(chat, "Index out of range.")>>)
    ELSE Effect(<<Send(chat, "Error cancelling scheduled message: no attribute 'delete_scheduled_message'")>>)

\* AdminTools.show_settings
show_settings(u, chat, kind, parts) ==
    IF u \notin admins THEN Effect(<<>>)
    ELSE Effect(<<Send(chat, "Admin settings")>>)

\* AdminTools.set_setting, for the key "timezone" and for unknown keys
set_setting(u, chat, kind, parts) ==
    IF u \notin admins THEN Effect(<<>>)
    ELSE IF Len(parts) < 3 THEN Effect(<<Send(chat, "Usage: /set <key> <value>")>>)
    ELSE IF parts[2] = "timezone" /\ parts[3] \notin Timezones
    THEN Effect(<<Send(chat, "Invalid timezone")>>)
    ELSE IF parts[2] # "timezone"
    THEN Effect(<<Send(chat, "Unknown setting")>>)
    ELSE [Effect(<<Send(chat, "Updated timezone")>>) EXCEPT !.tz = parts[3]]

-----------------------------------------------------------------------------
(* Plugins                                                                 *)
(*                                                                         *)
(* The plugin whose commands are followed is "weather".  A plugin object   *)
(* is [active, allowed_roles]; plugins.objects holds the objects a map     *)
(* still refers to, plugins.manager is PluginManager.plugins["weather"]    *)
(* and plugins.bot is TelegramBot.plugins["weather"], each the id of an    *)
(* object or NoPlugin when the map has no such key.  TelegramBot.plugins   *)
(* is a copy of the manager's map taken at startup, so the two maps may    *)
(* hold the same object, different objects, or differ in having the key.   *)
(* Of the "llm" plugin, which answers free text, plugins.llm keeps what    *)
(* the router reads: NoPlugin when TelegramBot.plugins has no such key,    *)
(* else "active", "inactive" (never activated) or "removed" (deactivated   *)
(* and dropped from the manager's map).                                    *)

PluginIds == {"p1", "p2"}

NoPlugin == "<absent>"

\* an object no map refers to
NoObject == [active |-> FALSE, allowed_roles |-> {}]

NoPlugins == [objects |-> [id \in PluginIds |-> NoObject],
              manager |-> NoPlugin, bot |-> NoPlugin, llm |-> NoPlugin]

\* BasePlugin.__init__: inactive, allowed to admin and superadmin
NewPlugin == [active |-> FALSE, allowed_roles |-> {"admin", "superadmin"}]

\* str.lstrip("/")
RECURSIVE lstrip_slash(_)
lstrip_slash(text) ==
    IF text # <<>> /\ Head(text) = "/" THEN lstrip_slash(Tail(text)) ELSE text

\* a normalisation that would also drop the plugin's prefix, so that
\* "/weather_info" would become "info"
PluginCommandNameNoPrefix(cmd) ==
    LET stripped == lstrip_slash(cmd)
        lowered == [i \in DOMAIN stripped |-> LowerChar(stripped[i])]
    IN  IF lowered = cmd_weather_info THEN cmd_info ELSE lowered

\* cmd.lstrip("/").lower()
PluginCommandName(cmd) ==
    LET stripped == lstrip_slash(cmd)
    IN  [i \in DOMAIN stripped |-> LowerChar(stripped[i])]

\* str.lower on the role names an allowed_roles list may carry
role_lower(role) ==
    CASE role = "Admin" -> "admin"
      [] role = "ALL" -> "all"
      [] OTHER -> role

\* role_hierarchy of PluginHandler, with .get(role, 0)
plugin_role_level(role) ==
    CASE role = "user" -> 1
      [] role = "admin" -> 2
      [] role = "superadmin" -> 3
      [] OTHER -> 0

\* a floor that would be the highest role of the list
get_minimum_role_highest(allowed_roles) ==
    IF allowed_roles = {} THEN "admin"
    ELSE IF "all" \in allowed_roles THEN Unrestricted
    ELSE LET known == {role_lower(r) : r \in allowed_roles}
                          \cap {"user", "admin", "superadmin"}
         IN  IF known = {} THEN "admin"
             ELSE CHOOSE r \in known :
                     \A q \in known : plugin_role_level(r) >= plugin_role_level(q)

\* PluginHandler.get_minimum_role: "admin" for an empty list, None when the
\* list holds "all", else the lowest of the known roles in it ("admin"
\* when it holds none)
get_minimum_role(allowed_roles) ==
    IF allowed_roles = {} THEN "admin"
    ELSE IF "all" \in allowed_roles THEN Unrestricted
    ELSE LET known == {role_lower(r) : r \in allowed_roles}
                          \cap {"user", "admin", "superadmin"}
         IN  IF known = {} THEN "admin"
             ELSE CHOOSE r \in known :
                     \A q \in known : plugin_role_level(r) <= plugin_role_level(q)

\* an access check that would take the empty list for no restriction
check_plugin_access_open(user_role, allowed_roles) ==
    \/ allowed_roles = {}
    \/ "all" \in allowed_roles
    \/ \E allowed_role \in allowed_roles :
          plugin_role_level(user_role) >= plugin_role_level(role_lower(allowed_role))

\* an access check that would admit only the roles named in the list
check_plugin_access_listed(user_role, allowed_roles) ==
    /\ allowed_roles # {}
    /\ \/ "all" \in allowed_roles
       \/ user_role \in {role_lower(allowed_role) : allowed_role \in allowed_roles}

\* PluginHandler.check_plugin_access
check_plugin_access(user_role, allowed_roles) ==
    /\ allowed_roles # {}
    /\ \/ "all" \in allowed_roles
       \/ \E allowed_role \in allowed_roles :
             plugin_role_level(user_role) >= plugin_role_level(role_lower(allowed_role))

\* the security_message of handle_plugin_command
plugin_security_message_revealing == "Plugin is not active."

plugin_security_message ==
    "This command either doesn't exist or you don't have permission to use it."

\* what WeatherPlugin.handle_command returns
plugin_reply == "Weather report"

\* what handle_plugin_command sends when plugin.handle_command raises
plugin_error_message == "An error occurred while processing your command."

\* PluginHandler.handle_plugin_command for the plugin named "weather";
\* the argument "boom" stands for the inputs on which the plugin's
\* handle_command raises
handle_plugin_command(u, chat, kind, parts) ==
    IF plugins.bot = NoPlugin
    THEN Effect(<<Send(chat, plugin_security_message)>>)
    ELSE IF ~plugins.objects[plugins.bot].active
    THEN Effect(<<Send(chat, plugin_security_message)>>)
    ELSE IF ~check_plugin_access(get_role(roles, u),
                                 plugins.objects[plugins.bot].allowed_roles)
    THEN Effect(<<Send(chat, plugin_security_message)>>)
    ELSE IF Len(parts) >= 2 /\ parts[2] = "boom"
    THEN Effect(<<Send(chat, plugin_error_message)>>)
    ELSE Effect(<<Send(chat, plugin_reply)>>)

\* command_registry.register for each command of WeatherPlugin.commands()
RegisterPluginCommands(reg, plugin) ==
    LET min_role == get_minimum_role(plugin.allowed_roles)
        r1 == register(reg, PluginCommandName(Slash(cmd_weather_info)),
                       "handle_plugin_command", min_role)
    IN  register(r1, PluginCommandName(Slash(cmd_weather)),
                 "handle_plugin_command", min_role)

\* PluginHandler.add_plugin_commands
add_plugin_commands(reg, plugin) ==
    IF plugin.active THEN RegisterPluginCommands(reg, plugin) ELSE reg

\* PluginHandler.register_plugin_commands: the plugins of bot.plugins that
\* are active (bot.plugins holds only names of active_plugins); the "llm"
\* plugin has the one command llm_info and the allowed_roles of BasePlugin
register_plugin_commands(reg) ==
    LET r1 == IF plugins.bot # NoPlugin /\ plugins.objects[plugins.bot].active
              THEN RegisterPluginCommands(reg, plugins.objects[plugins.bot])
              ELSE reg
    IN  IF plugins.llm = "active"
        THEN register(r1, <<"l", "l", "m", "_", "i", "n", "f", "o">>,
                      "handle_plugin_command",
                      get_minimum_role(NewPlugin.allowed_roles))
        ELSE r1

\* a handler given to register_command by its caller: it answers the chat
custom_handler(u, chat, kind, parts) == Effect(<<Send(chat, "custom reply")>>)

\* handler(message), by the handler the registry holds
RunHandler(h, u, chat, kind, parts, chats) ==
    CASE h = "handle_start" -> handle_start(u, chat, kind, parts)
      [] h = "handle_help" -> handle_help(u, chat, kind, parts)
      [] h = "handle_info" -> handle_info(u, chat, kind, parts)
      [] h = "handle_promote_user" -> handle_promote_user(u, chat, kind, parts)
      [] h = "handle_demote_user" -> handle_demote_user(u, chat, kind, parts)
      [] h = "handle_create_poll" -> handle_create_poll(u, chat, kind, parts)
      [] h = "_broadcast_handler" -> broadcast_handler(u, chat, kind, parts, chats)
      [] h = "_schedule_handler" -> schedule_handler(u, chat, kind, parts)
      [] h = "_list_scheduled_handler" -> list_scheduled_handler(u, chat, kind, parts)
      [] h = "_cancel_scheduled_handler" -> cancel_scheduled_handler(u, chat, kind, parts)
      [] h = "show_settings" -> show_settings(u, chat, kind, parts)
      [] h = "set_setting" -> set_setting(u, chat, kind, parts)
      [] h = "handle_plugin_command" -> handle_plugin_command(u, chat, kind, parts)
      [] OTHER -> custom_handler(u, chat, kind, parts)

-----------------------------------------------------------------------------
(* Bounds                                                                  *)

\* rows the scheduled_messages table may hold
MaxMsgs == 2

\* the last tick of the clock
MaxTime == 2

\* group chats events may arrive from
GroupChats == {100}

ChatKindOf(chat) == IF chat \in Users THEN "private" ELSE "group"

-----------------------------------------------------------------------------
(* Initial state: TelegramBot.__init__ with admin_ids = [FirstAdmin]       *)

NoEvent == [class |-> "none", outcome |-> "none", present |-> FALSE,
            required_role |-> Unrestricted, role |-> "", handler |-> "<None>",
            out |-> <<>>]

SchedIdle == [pc |-> "head", due |-> <<>>, chat_ids |-> <<>>, started |-> 0,
              seen_chats |-> 0, ended |-> FALSE, resolved |-> 0,
              sent_count |-> 0, failed |-> 0]

InitCore ==
    /\ roles = add_role([u \in Users |-> NoRow], FirstAdmin, "superadmin")
    /\ admins = {FirstAdmin}
    /\ users = <<>>
    /\ tzSetting = "Africa/Cairo"
    /\ clock = 0
    /\ scheduled = <<>>
    /\ sched = SchedIdle
    /\ running = TRUE
    /\ last = NoEvent
    /\ lastRole = NoRoleCall
    /\ store = StoreIdle
    /\ denials = {}
    /\ deliveries = [sent |-> {}, again |-> {}]

\* no plugin is configured: active_plugins is empty
Init ==
    /\ InitCore
    /\ commands = SystemCommandsRegistered
    /\ plugins = NoPlugins

\* main() with active_plugins = ["weather"]: activate_plugin registers the
\* commands of the new object, bot.plugins becomes a copy of the manager's
\* map, and register_all_plugin_commands registers the same again
StartedPlugins ==
    [NoPlugins EXCEPT !.objects["p1"] = [NewPlugin EXCEPT !.active = TRUE],
                      !.manager = "p1", !.bot = "p1"]

\* the state main() starts polling in, with the plugin configured or not
InitPlugins ==
    /\ InitCore
    /\ \/ /\ plugins = NoPlugins
          /\ commands = SystemCommandsRegistered
       \/ /\ plugins = StartedPlugins
          /\ commands = RegisterPluginCommands(SystemCommandsRegistered,
                                               StartedPlugins.objects["p1"])
       \/ \* "llm" configured without an api_key: GeminiLLM.activate leaves
          \* it inactive, and an inactive plugin registers no command
          /\ plugins = [NoPlugins EXCEPT !.llm = "inactive"]
          /\ commands = SystemCommandsRegistered
       \/ \* "llm" configured with an api_key: active, and its one command,
          \* llm_info, is registered by register_all_plugin_commands
          /\ plugins = [NoPlugins EXCEPT !.llm = "active"]
          /\ commands = register(SystemCommandsRegistered,
                                 <<"l", "l", "m", "_", "i", "n", "f", "o">>,
                                 "handle_plugin_command",
                                 get_minimum_role(NewPlugin.allowed_roles))

-----------------------------------------------------------------------------
(* MessageHandler                                                          *)

\* MessageHandler._handle_command, after handle_message recorded the sender
\* (chats is the users table after that): the effect of the command and the
\* record of what the router did
HandleCommand(u, chat, kind, parts, chats) ==
    LET command == CommandName(parts)
        present == has_command(commands, command)
        required_role == get_required_role(commands, command)
        handler == get_handler(commands, command)
        ev == [class |-> "command", outcome |-> "none", present |-> present,
               required_role |-> required_role, role |-> get_role(roles, u),
               handler |-> "<None>", out |-> <<>>]
    IN
    IF ~present
    THEN [eff |-> Effect(<<Send(chat, NotFoundReply(command))>>),
          ev |-> [ev EXCEPT !.outcome = "NotFound",
                            !.out = <<Send(chat, NotFoundReply(command))>>]]
    ELSE IF required_role # Unrestricted /\ ~has_role(roles, u, required_role)
    THEN [eff |-> Effect(<<Send(chat, DeniedReply(command, required_role))>>),
          ev |-> [ev EXCEPT !.outcome = "Denied",
                            !.out = <<Send(chat, DeniedReply(command, required_role))>>]]
    ELSE LET eff == RunHandler(handler, u, chat, kind, parts, chats) IN
         [eff |-> eff,
          ev |-> [ev EXCEPT
                     !.outcome = IF eff.raised THEN "HandlerFailed" ELSE "Dispatched",
                     !.handler = handler,
                     !.out = IF eff.raised
                             THEN eff.out \o <<Send(chat, error_message)>>
                             ELSE eff.out]]

\* a router that hands free text to the fallback whether or not it is
\* loaded and active
RoutedAlwaysAnswers(u, chat, kind, parts, chats) ==
    IF IsCommandText(parts)
    THEN HandleCommand(u, chat, kind, parts, chats)
    ELSE [eff |-> Effect(<<Send(chat, "LLM reply")>>),
          ev |-> [NoEvent EXCEPT !.class = "freetext", !.outcome = "Answered",
                                 !.out = <<Send(chat, "LLM reply")>>]]

\* the body of MessageHandler.handle_message, given the users table after
\* add_user: a command goes to _handle_command; any other text goes to the
\* plugin TelegramBot.plugins holds under "llm" when that plugin is active
\* (the reply of respond_to_message is sent), and is ignored otherwise
Routed(u, chat, kind, parts, chats) ==
    IF IsCommandText(parts)
    THEN HandleCommand(u, chat, kind, parts, chats)
    ELSE IF plugins.llm = "active"
    THEN [eff |-> Effect(<<Send(chat, "LLM reply")>>),
          ev |-> [NoEvent EXCEPT !.class = "freetext", !.outcome = "Answered",
                                 !.out = <<Send(chat, "LLM reply")>>]]
    ELSE [eff |-> Effect(<<>>),
          ev |-> [NoEvent EXCEPT !.class = "freetext", !.outcome = "Ignored"]]

\* MessageHandler.handle_message for an event from user u in chat chat
HandleMessage(u, chat, parts) ==
    \E chats \in {db_add_user(users, u, ChatKindOf(chat))} :
    \E r \in {Routed(u, chat, ChatKindOf(chat), parts, chats)} :
        /\ Len(r.eff.scheduled) <= MaxMsgs
        /\ users' = chats
        /\ roles' = r.eff.roles
        /\ admins' = r.eff.admins
        /\ scheduled' = r.eff.scheduled
        /\ tzSetting' = r.eff.tz
        /\ lastRole' = r.eff.call
        /\ last' = r.ev
        /\ denials' = IF r.ev.outcome \in {"NotFound", "Denied"}
                      THEN denials \cup {[cause |-> r.ev.outcome,
                                          text |-> r.ev.out[1].text]}
                      ELSE denials
        /\ UNCHANGED <<commands, clock, sched, running, deliveries, plugins, store>>

\* MessageHandler.register_command, called after startup
RegisterCommand(command, handler_func, required_role) ==
    /\ commands' = register(commands, command, handler_func, required_role)
    /\ last' = NoEvent
    /\ lastRole' = NoRoleCall
    /\ UNCHANGED <<roles, admins, users, tzSetting, clock, scheduled, sched,
                   running, denials, deliveries, plugins, store>>

-----------------------------------------------------------------------------
(* PluginManager and the plugin entry points of MessageHandler             *)

\* PluginManager.activate_plugin("weather"), after startup: a new object is
\* made and activated, stored in the manager's map alone, and its commands
\* are registered; nothing happens when the manager's map has the name
ActivatePlugin ==
    /\ plugins.manager = NoPlugin
    /\ \E id \in {CHOOSE i \in PluginIds : i # plugins.bot} :
       \E plugin \in {[NewPlugin EXCEPT !.active = TRUE]} :
          /\ plugins' = [plugins EXCEPT !.objects[id] = plugin, !.manager = id]
          /\ commands' = add_plugin_commands(commands, plugin)
    /\ last' = NoEvent
    /\ lastRole' = NoRoleCall
    /\ UNCHANGED <<roles, admins, users, tzSetting, clock, scheduled, sched,
                   running, denials, deliveries, store>>

\* PluginManager.deactivate_plugin("weather"): the object leaves the
\* manager's map and is deactivated; the registry keeps its commands
DeactivatePlugin ==
    /\ plugins.manager # NoPlugin
    /\ plugins' =
          [plugins EXCEPT
              !.objects[plugins.manager] =
                  IF plugins.manager = plugins.bot
                  THEN [@ EXCEPT !.active = FALSE]
                  ELSE NoObject,
              !.manager = NoPlugin]
    /\ last' = NoEvent
    /\ lastRole' = NoRoleCall
    /\ UNCHANGED <<roles, admins, commands, users, tzSetting, clock, scheduled,
                   sched, running, denials, deliveries, store>>

\* PluginManager.deactivate_plugin("llm"): the object leaves the manager's
\* map and is deactivated; TelegramBot.plugins keeps referring to it
DeactivateLlm ==
    /\ plugins.llm \in {"inactive", "active"}
    /\ plugins' = [plugins EXCEPT !.llm = "removed"]
    /\ last' = NoEvent
    /\ lastRole' = NoRoleCall
    /\ UNCHANGED <<roles, admins, commands, users, tzSetting, clock, scheduled,
                   sched, running, denials, deliveries, store>>

\* plugin.allowed_roles = allowed_roles, on an object a map refers to
SetAllowedRoles(id, allowed_roles) ==
    /\ id \in {plugins.manager, plugins.bot} \ {NoPlugin}
    /\ plugins.objects[id].allowed_roles # allowed_roles
    /\ plugins' = [plugins EXCEPT !.objects[id].allowed_roles = allowed_roles]
    /\ last' = NoEvent
    /\ lastRole' = NoRoleCall
    /\ UNCHANGED <<roles, admins, commands, users, tzSetting, clock, scheduled,
                   sched, running, denials, deliveries, store>>

\* MessageHandler.register_all_plugin_commands, called after startup
RegisterAllPluginCommands ==
    /\ commands' = register_plugin_commands(commands)
    /\ commands' # commands
    /\ last' = NoEvent
    /\ lastRole' = NoRoleCall
    /\ UNCHANGED <<roles, admins, users, tzSetting, clock, scheduled, sched,
                   running, denials, deliveries, plugins, store>>

-----------------------------------------------------------------------------
(* UserManager.promote_user / demote_user called directly                   *)

PromoteUser(target_id, new_role, by_user) ==
    \E res \in {promote_user(roles, target_id, new_role, by_user)} :
        /\ roles' = res.roles
        /\ lastRole' = RoleCall("promote", roles, target_id, new_role, by_user, res)
        /\ last' = NoEvent
        /\ UNCHANGED <<admins, commands, users, tzSetting, clock, scheduled, sched,
                       running, denials, deliveries, plugins, store>>

DemoteUser(target_id, by_user) ==
    \E res \in {demote_user(roles, target_id, by_user)} :
        /\ roles' = res.roles
        /\ lastRole' = RoleCall("demote", roles, target_id, "", by_user, res)
        /\ last' = NoEvent
        /\ UNCHANGED <<admins, commands, users, tzSetting, clock, scheduled, sched,
                       running, denials, deliveries, plugins, store>>

-----------------------------------------------------------------------------
(* AdminTools._scheduler_loop                                              *)
(*                                                                         *)
(* pc "head" is the while test; "resolve" is before get_chats_by_type for  *)
(* the head of due; "send" is before the send to the head of chat_ids;     *)
(* "mark" is before mark_scheduled_as_sent; "sleep" is in time.sleep(30)   *)
(* at the end of the iteration; "done" is after the loop.  While the try   *)
(* block runs, started is the instant its now denotes and seen_chats the   *)
(* number of chats the store held when it began; in "sleep", ended is      *)
(* whether the try block ran to its end.  For the broadcast being sent,    *)
(* resolved is the number of chat ids get_chats_by_type gave, sent_count   *)
(* the loop's counter of send_message calls that returned, and failed the  *)
(* number of those calls in which Telegram refused the message.            *)

\* the microsecond part datetime.now may have: none (0) or some (1)
NowFracs == {0, 1}

\* an iteration that would begin without testing self.running
BeginCycleIgnoringStop(frac) ==
    /\ sched.pc = "head"
    /\ LET now == NowText(clock, tzSetting, frac)
           due == get_due_scheduled_messages(scheduled, now)
       IN  sched' = IF due = <<>>
                    THEN [SchedIdle EXCEPT !.pc = "sleep", !.ended = TRUE]
                    ELSE [SchedIdle EXCEPT !.pc = "resolve", !.due = due,
                                           !.started = Instant(now),
                                           !.seen_chats = Len(users)]
    /\ UNCHANGED <<roles, admins, commands, users, tzSetting, clock, scheduled,
                   running, last, lastRole, denials, deliveries, plugins,
                   store>>

\* an iteration that would take now in the timezone the thread started
\* with, instead of reading the setting
BeginCycleStartupZone(frac) ==
    /\ sched.pc = "head"
    /\ running
    /\ LET now == NowText(clock, "Africa/Cairo", frac)
           due == get_due_scheduled_messages(scheduled, now)
       IN  sched' = IF due = <<>>
                    THEN [SchedIdle EXCEPT !.pc = "sleep", !.ended = TRUE]
                    ELSE [SchedIdle EXCEPT !.pc = "resolve", !.due = due,
                                           !.started = Instant(now),
                                           !.seen_chats = Len(users)]
    /\ UNCHANGED <<roles, admins, commands, users, tzSetting, clock, scheduled,
                   running, last, lastRole, denials, deliveries, plugins,
                   store>>

\* while self.running: read the timezone, take now, run the due-query
BeginCycle(frac) ==
    /\ sched.pc = "head"
    /\ running
    /\ LET now == NowText(clock, tzSetting, frac)
           due == get_due_scheduled_messages(scheduled, now)
       IN  sched' = IF due = <<>>
                    THEN [SchedIdle EXCEPT !.pc = "sleep", !.ended = TRUE]
                    ELSE [SchedIdle EXCEPT !.pc = "resolve", !.due = due,
                                           !.started = Instant(now),
                                           !.seen_chats = Len(users)]
    /\ UNCHANGED <<roles, admins, commands, users, tzSetting, clock, scheduled,
                   running, last, lastRole, denials, deliveries, plugins,
                   store>>

\* the while test fails: the thread ends
ExitLoop ==
    /\ sched.pc = "head"
    /\ ~running
    /\ sched' = [sched EXCEPT !.pc = "done"]
    /\ UNCHANGED <<roles, admins, commands, users, tzSetting, clock, scheduled,
                   running, last, lastRole, denials, deliveries, plugins,
                   store>>

\* chat_ids = self.db.get_chats_by_type(target)
Resolve ==
    /\ sched.pc = "resolve"
    /\ LET chat_ids == get_chats_by_type(users, Head(sched.due).target)
       IN  sched' = [sched EXCEPT !.chat_ids = chat_ids,
                                  !.resolved = Len(chat_ids),
                                  !.sent_count = 0, !.failed = 0,
                                  !.pc = IF chat_ids = <<>> THEN "mark" ELSE "send"]
    /\ UNCHANGED <<roles, admins, commands, users, tzSetting, clock, scheduled,
                   running, last, lastRole, denials, deliveries, plugins,
                   store>>

\* what the record of deliveries becomes when pair is sent
Delivered(d, pair) ==
    IF pair \in d.sent THEN [d EXCEPT !.again = @ \cup {pair}]
    ELSE [d EXCEPT !.sent = @ \cup {pair}]

\* the thread's locals after one pass of the for loop over chat_ids
AfterSend(s) ==
    [s EXCEPT !.chat_ids = Tail(@), !.sent_count = @ + 1,
              !.pc = IF Tail(s.chat_ids) = <<>> THEN "mark" ELSE "send"]

\* self.bot_core.send_message(chat_id, ...) for the next chat
SendOne ==
    /\ sched.pc = "send"
    /\ deliveries' = Delivered(deliveries, <<Head(sched.due).id, Head(sched.chat_ids)>>)
    /\ sched' = AfterSend(sched)
    /\ UNCHANGED <<roles, admins, commands, users, tzSetting, clock, scheduled,
                   running, last, lastRole, denials, plugins, store>>

\* a refused message that would end the for loop over chat_ids
SendFailsEndsBroadcast ==
    /\ sched.pc = "send"
    /\ sched' = [sched EXCEPT !.chat_ids = <<>>, !.pc = "mark",
                              !.sent_count = @ + 1, !.failed = @ + 1]
    /\ UNCHANGED <<roles, admins, commands, users, tzSetting, clock, scheduled,
                   running, last, lastRole, denials, deliveries, plugins,
                   store>>

\* a refused message whose exception would reach the except clause of the
\* iteration: the broadcast is left unmarked
SendFailsAbortsCycle ==
    /\ sched.pc = "send"
    /\ sched' = [SchedIdle EXCEPT !.pc = "sleep"]
    /\ UNCHANGED <<roles, admins, commands, users, tzSetting, clock, scheduled,
                   running, last, lastRole, denials, deliveries, plugins,
                   store>>

\* the same call when Telegram refuses the message: TelegramBot.send_message
\* logs, retries without keyword arguments, logs again and returns, so the
\* loop counts the call and goes on to the next chat
SendFails ==
    /\ sched.pc = "send"
    /\ sched' = [AfterSend(sched) EXCEPT !.failed = @ + 1]
    /\ UNCHANGED <<roles, admins, commands, users, tzSetting, clock, scheduled,
                   running, last, lastRole, denials, deliveries, plugins,
                   store>>

\* self.db.mark_scheduled_as_sent(msg["id"]), then the next due message or
\* the end of the try block
MarkSent ==
    /\ sched.pc = "mark"
    /\ scheduled' = mark_scheduled_as_sent(scheduled, Head(sched.due).id)
    /\ sched' = IF Tail(sched.due) = <<>>
                 THEN [SchedIdle EXCEPT !.pc = "sleep", !.ended = TRUE]
                 ELSE [sched EXCEPT !.due = Tail(@), !.pc = "resolve",
                                    !.resolved = 0, !.sent_count = 0,
                                    !.failed = 0]
    /\ UNCHANGED <<roles, admins, commands, users, tzSetting, clock, running,
                   last, lastRole, denials, deliveries, plugins, store>>

\* an exception of the iteration that would leave the while loop
StoreErrorEndsLoop ==
    /\ sched.pc \in {"resolve", "mark"}
    /\ sched' = [SchedIdle EXCEPT !.pc = "done"]
    /\ UNCHANGED <<roles, admins, commands, users, tzSetting, clock, scheduled,
                   running, last, lastRole, denials, deliveries, plugins,
                   store>>

\* a store operation of the iteration raises (get_chats_by_type or
\* mark_scheduled_as_sent): the except clause logs it and the loop sleeps
StoreError ==
    /\ sched.pc \in {"resolve", "mark"}
    /\ sched' = [SchedIdle EXCEPT !.pc = "sleep"]
    /\ UNCHANGED <<roles, admins, commands, users, tzSetting, clock, scheduled,
                   running, last, lastRole, denials, deliveries, plugins,
                   store>>

\* the timezone lookup or the due-query raises: the same except clause
BeginError ==
    /\ sched.pc = "head"
    /\ running
    /\ sched' = [SchedIdle EXCEPT !.pc = "sleep"]
    /\ UNCHANGED <<roles, admins, commands, users, tzSetting, clock, scheduled,
                   running, last, lastRole, denials, deliveries, plugins,
                   store>>

\* time.sleep(30) returns: back to the while test
Sleep ==
    /\ sched.pc = "sleep"
    /\ sched' = SchedIdle
    /\ UNCHANGED <<roles, admins, commands, users, tzSetting, clock, scheduled,
                   running, last, lastRole, denials, deliveries, plugins,
                   store>>

\* AdminTools.stop
Stop ==
    /\ running
    /\ running' = FALSE
    /\ UNCHANGED <<roles, admins, commands, users, tzSetting, clock, scheduled,
                   sched, last, lastRole, denials, deliveries, plugins,
                   store>>

\* time passes
Tick ==
    /\ clock < MaxTime
    /\ clock' = clock + 1
    /\ UNCHANGED <<roles, admins, commands, users, tzSetting, scheduled, sched,
                   running, last, lastRole, denials, deliveries, plugins,
                   store>>

-----------------------------------------------------------------------------
(* DatabaseManager operations, step by step                                *)

\* the operations each thread calls
StoreCalls(actor) ==
    IF actor = "handler"
    THEN {with_lock("add_user", u, "private") : u \in Users}
            \cup {with_lock("set_setting", 0, tz) : tz \in Timezones}
            \cup {with_lock("add_scheduled_message", 0, "all"), add_entry}
    ELSE {with_lock("get_setting", 0, ""),
          with_lock("get_due_scheduled_messages", 0, ""),
          with_lock("get_chats_by_type", 0, "all")}
            \cup {with_lock("mark_scheduled_as_sent", id, "") : id \in 1..MaxMsgs}

\* a thread calls a store operation
Call(actor) ==
    /\ store.code[actor] = <<>>
    /\ \E operation \in StoreCalls(actor) :
          /\ \A i \in DOMAIN operation :
                operation[i].op = "add_scheduled_message" =>
                    Len(scheduled) < MaxMsgs
          /\ store' = [store EXCEPT !.code[actor] = operation]
    /\ UNCHANGED <<roles, admins, commands, users, tzSetting, clock, scheduled,
                   sched, running, last, lastRole, denials, deliveries, plugins>>

\* self.lock.__enter__: threading.Lock is not reentrant, so the thread
\* waits while any thread, itself included, holds the lock
Acquire(actor) ==
    /\ store.code[actor] # <<>>
    /\ Head(store.code[actor]).op = "acquire"
    /\ store.lock = "free"
    /\ store' = [store EXCEPT !.lock = actor, !.code[actor] = Tail(@)]
    /\ UNCHANGED <<roles, admins, commands, users, tzSetting, clock, scheduled,
                   sched, running, last, lastRole, denials, deliveries, plugins>>

\* c.execute(...) and conn.commit() of the block
Execute(actor) ==
    /\ store.code[actor] # <<>>
    /\ \E step \in {Head(store.code[actor])} :
          /\ step.op \notin {"acquire", "release"}
          /\ users' = IF step.op = "add_user"
                      THEN db_add_user(users, step.id, step.text) ELSE users
          /\ tzSetting' = IF step.op = "set_setting" THEN step.text
                          ELSE tzSetting
          /\ scheduled' =
                CASE step.op = "add_scheduled_message" ->
                        add_scheduled_message(scheduled, step.text, "text",
                                              NowText(MaxTime, "UTC", 0))
                  [] step.op = "mark_scheduled_as_sent" ->
                        mark_scheduled_as_sent(scheduled, step.id)
                  [] OTHER -> scheduled
    /\ store' = [store EXCEPT !.code[actor] = Tail(@)]
    /\ UNCHANGED <<roles, admins, commands, clock, sched, running, last,
                   lastRole, denials, deliveries, plugins>>

\* self.lock.__exit__
Release(actor) ==
    /\ store.code[actor] # <<>>
    /\ Head(store.code[actor]).op = "release"
    /\ store' = [store EXCEPT !.lock = "free", !.code[actor] = Tail(@)]
    /\ UNCHANGED <<roles, admins, commands, users, tzSetting, clock, scheduled,
                   sched, running, last, lastRole, denials, deliveries, plugins>>

-----------------------------------------------------------------------------
(* Specifications                                                          *)

\* where the events of the runs come from, as <<sender, chat>>
PrivateSources == {<<u, u>> : u \in Users}

\* the texts of the access-control runs
RouterTexts ==
    {<<Slash(cmd_start)>>, <<Slash(cmd_nope)>>, <<Slash(cmd_weather)>>,
     <<Slash(cmd_settings)>>,
     <<<<"/", "H", "e", "l", "p", "@", "b", "o", "t">>>>,
     <<Slash(cmd_cancel_scheduled), "all">>,
     <<<<"h", "i">>>>,
     <<Slash(cmd_start) \o <<"!">>>>,
     <<Slash(cmd_promote_user), "2", "admin">>,
     <<Slash(cmd_promote_user), "1", "admin">>,
     <<Slash(cmd_demote_user), "2">>}

\* the texts of the role-change runs
RoleTexts ==
    {<<Slash(cmd_promote_user)>>, <<Slash(cmd_promote_user), "x", "admin">>,
     <<Slash(cmd_demote_user), "x">>}
        \cup {<<Slash(cmd_promote_user), IntText(t), r>> :
                t \in Users, r \in {"user", "admin", "superadmin", "bogus"}}
        \cup {<<Slash(cmd_demote_user), IntText(t)>> : t \in Users}

\* the texts of the scheduler runs: the first administrator schedules and
\* sets the timezone from a private chat
SchedulerTexts ==
    {<<Slash(cmd_schedule_message), target, "date", IntText(t), "hello">> :
        target \in {"groups", "all"}, t \in 1..(MaxTime + 1)}
        \cup {<<Slash(cmd_set), "timezone", tz>> : tz \in Timezones}

\* the texts of the scheduler runs in which the timezone stays
OneZoneTexts ==
    {<<Slash(cmd_schedule_message), "all", "date", IntText(t), "hello">> :
        t \in 2..(MaxTime + 1)}

\* the other users write from a group chat
GroupSources == {<<u, g>> : u \in Users \ {FirstAdmin}, g \in GroupChats}

Route(sources, texts) ==
    \E src \in sources : \E parts \in texts : HandleMessage(src[1], src[2], parts)

RouteAccess == Route(PrivateSources, RouterTexts)

RouteRoles == Route(PrivateSources, RoleTexts)

RouteScheduling == Route({<<FirstAdmin, FirstAdmin>>}, SchedulerTexts)

RouteOneZone == Route({<<FirstAdmin, FirstAdmin>>}, OneZoneTexts)

RouteGroup == Route(GroupSources, {<<Slash(cmd_start)>>})

Register ==
    \E required_role \in RoleNames \cup {Unrestricted} :
        RegisterCommand(cmd_weather, "custom_handler", required_role)

Promote ==
    \E target_id \in Users : \E new_role \in RoleNames :
        \E by_user \in Users \cup {NoActor} :
            PromoteUser(target_id, new_role, by_user)

Demote ==
    \E target_id \in Users : \E by_user \in Users \cup {NoActor} :
        DemoteUser(target_id, by_user)

Begin == \E frac \in NowFracs : BeginCycle(frac)

\* commands and registrations
Next == RouteAccess \/ Register

Spec == Init /\ [][Next]_vars

\* role changes, by command and by direct call
NextRoles == RouteRoles \/ Promote \/ Demote

SpecRoles == Init /\ [][NextRoles]_vars

\* the scheduler thread against the foreground commands that reach its tables
NextSched ==
    RouteScheduling \/ RouteGroup \/ Begin \/ Resolve \/ SendOne \/ MarkSent
        \/ Sleep \/ Tick

SpecSched == Init /\ [][NextSched]_vars

\* the scheduler thread while the timezone setting stays as it is
NextSchedOneZone ==
    RouteOneZone \/ RouteGroup \/ Begin \/ Resolve \/ SendOne \/ MarkSent
        \/ Sleep \/ Tick

SpecSchedOneZone == Init /\ [][NextSchedOneZone]_vars

\* the texts of the plugin runs
PluginTexts ==
    {<<Slash(cmd_weather)>>, <<Slash(cmd_weather_info)>>, <<Slash(cmd_nope)>>,
     <<Slash(cmd_weather), "boom">>, <<<<"h", "i">>>>}

\* the allowed_roles lists of the plugin runs
AllowedRoleSets ==
    {{}, {"all"}, {"user"}, {"superadmin"}, {"admin", "superadmin"}}

RoutePlugins == Route(PrivateSources, PluginTexts)

SetRoles ==
    \E id \in PluginIds : \E allowed_roles \in AllowedRoleSets :
        SetAllowedRoles(id, allowed_roles)

\* the superadmin makes the other user an admin
PromoteSecond == PromoteUser(2, "admin", FirstAdmin)

NextPlugins ==
    \/ RoutePlugins
    \/ ActivatePlugin
    \/ DeactivatePlugin
    \/ SetRoles
    \/ RegisterAllPluginCommands
    \/ PromoteSecond
    \/ DeactivateLlm

SpecPlugins == InitPlugins /\ [][NextPlugins]_vars

\* the scheduler thread while its one admin schedules broadcasts to every
\* chat and changes the timezone setting
NextZones ==
    \/ Route({<<FirstAdmin, FirstAdmin>>},
             OneZoneTexts
                \cup {<<Slash(cmd_set), "timezone", tz>> : tz \in Timezones})
    \/ Begin
    \/ Resolve
    \/ SendOne
    \/ MarkSent
    \/ Sleep
    \/ Tick

SpecZones == Init /\ [][NextZones]_vars

\* the handler path and the scheduler thread in store operations, one step
\* of one thread at a time
NextStore ==
    \E actor \in Actors :
        \/ Call(actor)
        \/ Acquire(actor)
        \/ Execute(actor)
        \/ Release(actor)

SpecStore == Init /\ [][NextStore]_vars

\* the same, with deliveries that Telegram may refuse
NextSendFaults == NextSchedOneZone \/ SendFails

SpecSendFaults == Init /\ [][NextSendFaults]_vars

\* the scheduler thread: one step of _scheduler_loop, errors included
LoopStep ==
    \/ Begin
    \/ BeginError
    \/ Resolve
    \/ SendOne
    \/ SendFails
    \/ MarkSent
    \/ StoreError
    \/ Sleep
    \/ ExitLoop

\* the admin schedules broadcasts for one send time
RouteOneTime ==
    Route({<<FirstAdmin, FirstAdmin>>},
          {<<Slash(cmd_schedule_message), "all", "date", IntText(2), "hello">>})

\* the thread next to the admin who schedules and the bot being stopped
NextLoop == RouteOneTime \/ LoopStep \/ Stop \/ Tick

\* the thread is a running Python thread: whenever it has a step it
\* eventually takes one (time.sleep(30) returns, calls return or raise)
SpecLoop == Init /\ [][NextLoop]_vars /\ WF_vars(LoopStep)

\* the texts of the scheduling runs: requests with each audience and send
\* time, with an unknown audience, with a date or a time that does not
\* parse, and without a message; the timezone stays Africa/Cairo
ScheduleTexts ==
    {<<Slash(cmd_schedule_message), "all", "date", IntText(t), "hello">> :
        t \in 1..(MaxTime + 1)}
        \cup {<<Slash(cmd_schedule_message), "individuals", "date", IntText(MaxTime + 1), "hello">>,
              <<Slash(cmd_schedule_message), "everyone", "date", IntText(MaxTime + 1), "hello">>,
              <<Slash(cmd_schedule_message), "all", "tomorrow", IntText(MaxTime + 1), "hello">>,
              <<Slash(cmd_schedule_message), "all", "date", "noon", "hello">>,
              <<Slash(cmd_schedule_message), "all", "date", IntText(MaxTime + 1)>>}

\* the admin sends the scheduling texts while time passes
NextSchedule == Route({<<FirstAdmin, FirstAdmin>>}, ScheduleTexts) \/ Tick

SpecSchedule == Init /\ [][NextSchedule]_vars

\* the admin schedules broadcasts and asks to cancel them
CancelTexts ==
    {<<Slash(cmd_schedule_message), "all", "date", IntText(2), "hello">>,
     <<Slash(cmd_cancel_scheduled), "all">>,
     <<Slash(cmd_cancel_scheduled), "1">>}

RouteCancel == Route({<<FirstAdmin, FirstAdmin>>}, CancelTexts)

NextCancel ==
    RouteCancel \/ Begin \/ Resolve \/ SendOne \/ MarkSent \/ Sleep \/ Tick

SpecCancel == Init /\ [][NextCancel]_vars

\* the same, with store operations of the iteration allowed to raise
NextSchedFaults == NextSchedOneZone \/ StoreError

SpecSchedFaults == Init /\ [][NextSchedFaults]_vars

-----------------------------------------------------------------------------
(* Properties: the router                                                  *)

\* the role names of the role manager
KnownRoles == {ROLE_HIERARCHY[i] : i \in DOMAIN ROLE_HIERARCHY}

\* C1: every denial the router has sent carries the same text, whether the
\* command was not registered or the caller's role was insufficient, and
\* whatever the command name and the required role were
C1_DenialInvariance == \A d1, d2 \in denials : d1.text = d2.text

\* C1, its case: both kinds of denial have been sent
C1_Witness ==
    /\ \E d \in denials : d.cause = "NotFound"
    /\ \E d \in denials : d.cause = "Denied"

\* C2: a handler runs only for a command that is in the registry and whose
\* requirement is unrestricted or ranks no higher than the caller's persisted
\* role; when the command is not found or the caller is denied, no handler
\* runs and exactly one message, the generic denial, goes out
C2_HandlerOnlyIfAuthorized ==
    /\ last.handler # "<None>" =>
          /\ last.present
          /\ \/ last.required_role = Unrestricted
             \/ rank(last.role) >= rank(last.required_role)
    /\ last.outcome \in {"NotFound", "Denied"} =>
          /\ last.handler = "<None>"
          /\ Len(last.out) = 1
          /\ last.out[1].text = security_message

\* C2, its case: a handler ran for a command that requires a privileged
\* role, after a denial had been sent
C2_Witness ==
    /\ last.outcome = "Dispatched"
    /\ last.required_role \in {"admin", "superadmin"}
    /\ \E d \in denials : d.cause = "Denied"

\* C3: for a registered command the router allows the caller exactly when
\* the requirement is unrestricted, or the caller's role and the required
\* role are both among user, admin, superadmin and the caller's rank is at
\* least the required rank; an unknown role name on either side denies
C3_AccessDecision ==
    (last.class = "command" /\ last.present) =>
        IF last.required_role = Unrestricted
        THEN last.outcome # "Denied"
        ELSE (last.outcome # "Denied") <=>
                /\ last.role \in KnownRoles
                /\ last.required_role \in KnownRoles
                /\ rank(last.role) >= rank(last.required_role)

-----------------------------------------------------------------------------
(* Properties: role changes                                                *)

\* C4: a promote_user call with an acting user succeeds only if the actor's
\* role ranks strictly above the granted role
C4_PromoteStrictlyBelowActor ==
    (lastRole.op = "promote" /\ lastRole.ok /\ lastRole.by # NoActor) =>
        rank(lastRole.actor_role) > rank(lastRole.new_role)

\* C4, its case: a promotion by an acting user succeeded
C4_Witness ==
    lastRole.op = "promote" /\ lastRole.ok /\ lastRole.by # NoActor

\* C5 as stated: a superadmin's promotion to admin or to superadmin
\* succeeds and the target gets the granted role; an admin's promotion to
\* admin or superadmin fails
C5_AsStated ==
    /\ (lastRole.op = "promote" /\ lastRole.actor_role = "superadmin"
            /\ lastRole.new_role \in {"admin", "superadmin"}) =>
          (lastRole.ok /\ lastRole.after = lastRole.new_role)
    /\ (lastRole.op = "promote" /\ lastRole.actor_role = "admin"
            /\ lastRole.new_role \in {"admin", "superadmin"}) =>
          ~lastRole.ok

\* C5 amended: a superadmin's promotion to admin succeeds and the target
\* becomes admin; a superadmin's promotion to superadmin fails; an admin's
\* promotion to admin or superadmin fails
C5_PromotionCapability ==
    /\ (lastRole.op = "promote" /\ lastRole.actor_role = "superadmin"
            /\ lastRole.new_role = "admin") =>
          (lastRole.ok /\ lastRole.after = "admin")
    /\ (lastRole.op = "promote" /\ lastRole.actor_role = "superadmin"
            /\ lastRole.new_role = "superadmin") =>
          ~lastRole.ok
    /\ (lastRole.op = "promote" /\ lastRole.actor_role = "admin"
            /\ lastRole.new_role \in {"admin", "superadmin"}) =>
          ~lastRole.ok

\* C5, its case: a superadmin tried to promote to superadmin and was refused
C5_Witness ==
    /\ lastRole.op = "promote"
    /\ lastRole.actor_role = "superadmin"
    /\ lastRole.new_role = "superadmin"
    /\ ~lastRole.ok

\* C6: a successful demote_user leaves the target exactly one rank lower:
\* superadmin becomes admin, admin becomes user
C6_DemoteSingleStep ==
    (lastRole.op = "demote" /\ lastRole.ok) =>
        /\ rank(lastRole.after) = rank(lastRole.before) - 1
        /\ lastRole.before = "superadmin" => lastRole.after = "admin"
        /\ lastRole.before = "admin" => lastRole.after = "user"

\* C6, its case: a superadmin was demoted
C6_Witness ==
    lastRole.op = "demote" /\ lastRole.ok /\ lastRole.before = "superadmin"

-----------------------------------------------------------------------------
(* Properties: the scheduler                                               *)

\* C8: no chat receives the same broadcast from the scheduler twice
C8_AtMostOnce == deliveries.again = {}

\* C9: a row with sent = 1 is in no result of the due-query, whatever now
\* is, and in no result the running iteration still holds
C9_SentNeverDue ==
    /\ \A clk \in 0..MaxTime : \A tz \in Timezones : \A frac \in NowFracs :
          LET due == get_due_scheduled_messages(scheduled, NowText(clk, tz, frac))
          IN  \A i \in DOMAIN due : scheduled[due[i].id].sent = 0
    /\ \A i \in DOMAIN sched.due : scheduled[sched.due[i].id].sent = 0

\* C9, its case: the due-query of a later iteration returned an older row
\* while a newer row, whose send time has passed too, is marked sent (rows
\* come back in id order, so the newer row was marked by an earlier
\* iteration)
C9_Witness ==
    /\ sched.pc = "resolve"
    /\ \E i \in DOMAIN scheduled :
          /\ scheduled[i].sent = 1
          /\ Instant(scheduled[i].send_time) <= sched.started
          /\ \A j \in DOMAIN sched.due : sched.due[j].id < i

\* the chat ids a sequence holds
Range(seq) == {seq[i] : i \in DOMAIN seq}

\* C10: when an iteration's try block ends, every row whose send time is
\* not after the iteration's now is marked sent; a row is marked sent only
\* after it went to every chat of its audience the store held when the
\* iteration began; and nothing is ever sent a second time
C10_CycleSendsAllDue ==
    [][
        /\ (sched'.pc = "sleep" /\ sched'.ended) =>
             LET now == IF sched.pc = "head" THEN clock ELSE sched.started
             IN  \A i \in DOMAIN scheduled' :
                    Instant(scheduled'[i].send_time) <= now
                        => scheduled'[i].sent = 1
        /\ \A i \in DOMAIN scheduled :
              (scheduled[i].sent = 0 /\ scheduled'[i].sent = 1) =>
                  \A c \in Range(get_chats_by_type(
                                    SubSeq(users, 1, sched.seen_chats),
                                    scheduled[i].target_type)) :
                      <<scheduled[i].id, c>> \in deliveries.sent
        /\ deliveries'.again = {}
    ]_vars

-----------------------------------------------------------------------------
(* Properties: errors, stop and cancellation in the scheduler              *)

\* C11: a refused delivery does not end the attempts of its broadcast: from
\* a send the loop goes to the next send or to the mark of the same
\* broadcast, it reaches the mark only when every resolved chat was
\* attempted, and a row's sent flag changes only there, from 0 to 1, for
\* the broadcast at the head of due
C11_RecipientIsolation ==
    [][
        /\ sched.pc = "send" =>
              /\ sched'.pc \in {"send", "mark"}
              /\ sched'.due = sched.due
        /\ sched'.pc = "mark" =>
              /\ sched'.chat_ids = <<>>
              /\ sched'.sent_count = sched'.resolved
        /\ \A i \in DOMAIN scheduled :
              scheduled'[i].sent # scheduled[i].sent =>
                  /\ scheduled[i].sent = 0
                  /\ scheduled'[i].sent = 1
                  /\ sched.pc = "mark"
                  /\ Head(sched.due).id = scheduled[i].id
                  /\ sched.sent_count = sched.resolved
    ]_vars

\* C11, its case: a broadcast resolved to two chats is marked sent after
\* the first delivery was refused and the second went through
C11_Witness ==
    /\ sched.pc = "sleep"
    /\ \E i \in DOMAIN scheduled :
          /\ scheduled[i].sent = 1
          /\ \E c1, c2 \in Range(get_chats_by_type(users, "all")) :
                /\ c1 # c2
                /\ <<scheduled[i].id, c1>> \notin deliveries.sent
                /\ <<scheduled[i].id, c2>> \in deliveries.sent

\* C12: no error of an iteration ends the loop: the thread leaves the loop
\* only from the while test and only with the stop flag set, every step
\* taken while the flag is unset stays in the loop, and an iteration that
\* ended in the except clause (asleep, not ended normally) comes back to
\* the while test
C12_LoopSurvivesErrors ==
    /\ [][
           /\ (sched'.pc = "done" /\ sched.pc # "done") =>
                  (sched.pc = "head" /\ ~running)
           /\ (running /\ sched.pc \in {"head", "resolve", "send", "mark"}) =>
                  sched'.pc \in {"head", "resolve", "send", "mark", "sleep"}
       ]_vars
    /\ (sched.pc = "sleep" /\ ~sched.ended) ~> (sched.pc = "head")

\* C12, its case: an iteration is under way for a broadcast that an earlier
\* iteration delivered and then failed to mark, so the loop went on after
\* the exception
C12_Witness ==
    /\ running
    /\ sched.pc = "resolve"
    /\ \E pair \in deliveries.sent : pair[1] = Head(sched.due).id

C15_CancelAllClearsPending ==
    [][
        HandleMessage(FirstAdmin, FirstAdmin,
                      <<Slash(cmd_cancel_scheduled), "all">>)
        => /\ get_pending_scheduled_messages(scheduled') = <<>>
           /\ SelectSeq(scheduled', LAMBDA m : m.sent = 1)
                  = SelectSeq(scheduled, LAMBDA m : m.sent = 1)
    ]_vars

-----------------------------------------------------------------------------
(* Properties: plugins                                                     *)

\* C16: the floor registered for a plugin's commands is unrestricted when
\* the allowed-role-set holds "all" and else the lowest-ranked role of the
\* set: for every non-empty set as a value of get_minimum_role, at startup
\* ({admin, superadmin} gives admin), and at every later registration from
\* the set of the object being registered; and a caller of rank user who
\* invokes a plugin command whose floor is admin gets the generic denial
\* and no plugin handler runs
C16_PluginFloor ==
    /\ \A S \in (SUBSET {"user", "admin", "superadmin", "all"}) \ {{}} :
          get_minimum_role(S) =
              IF "all" \in S THEN Unrestricted
              ELSE CHOOSE r \in S : \A q \in S : rank(r) <= rank(q)
    /\ get_minimum_role({"admin", "superadmin"}) = "admin"
    /\ plugins.bot # NoPlugin => commands[cmd_weather].role = "admin"
    /\ [][
           /\ ( /\ cmd_weather \in DOMAIN commands'
                /\ \/ cmd_weather \notin DOMAIN commands
                   \/ commands'[cmd_weather] # commands[cmd_weather] ) =>
                 LET S == IF plugins'.manager # plugins.manager
                          THEN plugins'.objects[plugins'.manager].allowed_roles
                          ELSE plugins.objects[plugins.bot].allowed_roles
                 IN  /\ commands'[cmd_weather_info] = commands'[cmd_weather]
                     /\ S # {} =>
                           commands'[cmd_weather].role =
                               IF "all" \in S THEN Unrestricted
                               ELSE CHOOSE r \in S : \A q \in S : rank(r) <= rank(q)
           /\ \A u \in Users :
                 ( /\ cmd_weather \in DOMAIN commands
                   /\ commands[cmd_weather].role = "admin"
                   /\ get_role(roles, u) = "user"
                   /\ HandleMessage(u, u, <<Slash(cmd_weather)>>) ) =>
                     /\ last'.outcome = "Denied"
                     /\ last'.handler = "<None>"
                     /\ last'.out = <<Send(u, security_message)>>
       ]_vars

\* C16, its case: the plugin allows admin and superadmin, its commands are
\* registered with floor admin, and a caller of rank user was denied
C16_Witness ==
    /\ plugins.bot # NoPlugin
    /\ plugins.objects[plugins.bot].active
    /\ plugins.objects[plugins.bot].allowed_roles = {"admin", "superadmin"}
    /\ commands[cmd_weather].handler = "handle_plugin_command"
    /\ commands[cmd_weather].role = "admin"
    /\ last.role = "user"
    /\ last.required_role = "admin"
    /\ last.outcome = "Denied"

\* C17: an empty allowed-role-set admits no role and is not the unrestricted
\* requirement, and while the plugin's set is empty every invocation of a
\* command of the plugin, by a caller of any role, is answered with the
\* generic denial and not with the plugin's reply
C17_EmptySetDeniesAll ==
    /\ \A role \in RoleNames : ~check_plugin_access(role, {})
    /\ get_minimum_role({}) # Unrestricted
    /\ [][
           \A u \in Users : \A c \in {cmd_weather, cmd_weather_info} :
               ( /\ \E id \in {plugins.manager, plugins.bot} \ {NoPlugin} :
                       plugins.objects[id].allowed_roles = {}
                 /\ HandleMessage(u, u, <<Slash(c)>>) ) =>
                   last'.out = <<Send(u, security_message)>>
       ]_vars

\* C17, its case: the superadmin's invocation passed the registry's gate,
\* reached the plugin handler of an active plugin whose set is empty, and
\* was answered with the denial
C17_Witness ==
    /\ plugins.bot # NoPlugin
    /\ plugins.objects[plugins.bot].active
    /\ plugins.objects[plugins.bot].allowed_roles = {}
    /\ last.role = "superadmin"
    /\ last.handler = "handle_plugin_command"
    /\ last.out # <<>>
    /\ last.out[1].text = plugin_security_message

\* C18: whatever floor the registry holds from an earlier registration, an
\* invocation of a command of a present, active plugin is served exactly
\* when the plugin's current allowed-role-set admits the caller's current
\* role
C18_CurrentSetDecides ==
    [][
        \A u \in Users :
            ( /\ plugins.bot # NoPlugin
              /\ plugins.objects[plugins.bot].active
              /\ cmd_weather \in DOMAIN commands
              /\ HandleMessage(u, u, <<Slash(cmd_weather)>>) ) =>
                ( last'.out = <<Send(u, plugin_reply)>>
                  <=> check_plugin_access(get_role(roles, u),
                                          plugins.objects[plugins.bot].allowed_roles) )
    ]_vars

\* C19: when a registered plugin command is invoked and the plugin is not in
\* the bot's plugin map, or is inactive, or its allowed-role-set does not
\* admit the caller, the reply is the text the router sends for a command
\* that is not in the registry
C19_SameDenialText ==
    [][
        \A u \in Users :
            ( /\ cmd_weather \in DOMAIN commands
              /\ \/ plugins.bot = NoPlugin
                 \/ ~plugins.objects[plugins.bot].active
                 \/ ~check_plugin_access(get_role(roles, u),
                                         plugins.objects[plugins.bot].allowed_roles)
              /\ HandleMessage(u, u, <<Slash(cmd_weather)>>) ) =>
                last'.out = <<Send(u, NotFoundReply(cmd_nope))>>
    ]_vars

\* C19, its case: an unknown command was answered before, and now the
\* plugin handler answered an invocation for an inactive plugin
C19_Witness ==
    /\ \E d \in denials : d.cause = "NotFound"
    /\ plugins.bot # NoPlugin
    /\ ~plugins.objects[plugins.bot].active
    /\ last.handler = "handle_plugin_command"
    /\ last.outcome = "Dispatched"
    /\ last.out # <<>>
    /\ last.out[1].text = plugin_security_message

\* C20: when the manager's map holds an active plugin object that was
\* activated after startup, the plugin's commands are in the registry, and
\* an invocation by a caller whom the registered floor and the object's
\* allowed-role-set admit is answered by that plugin
C20_LateActivationServes ==
    [][
        \A u \in Users :
            ( /\ plugins.manager # NoPlugin
              /\ plugins.manager # plugins.bot
              /\ plugins.objects[plugins.manager].active
              /\ check_plugin_access(get_role(roles, u),
                                     plugins.objects[plugins.manager].allowed_roles)
              /\ HandleMessage(u, u, <<Slash(cmd_weather)>>) ) =>
                /\ cmd_weather \in DOMAIN commands
                /\ \/ last'.out = <<Send(u, plugin_reply)>>
                   \/ last'.outcome = "Denied"
    ]_vars

-----------------------------------------------------------------------------
(* Properties: the registry and the router                                 *)

\* C21: registration is last-write-wins and idempotent: from every registry
\* the bot reaches, two register calls for a name leave one entry for it
\* holding the handler and requirement of the second call and leave the
\* other names alone; and registering a plugin's commands a second time,
\* by the bulk or by the incremental entry point, changes nothing
C21_LastWriteWins ==
    /\ \A c \in {cmd_start, cmd_weather, cmd_nope} :
       \A h1, h2 \in {"custom_handler", "handle_plugin_command"} :
       \A r1, r2 \in {"admin", Unrestricted} :
          LET reg == register(register(commands, c, h1, r1), c, h2, r2)
          IN  /\ has_command(reg, c)
              /\ get_handler(reg, c) = h2
              /\ get_required_role(reg, c) = r2
              /\ DOMAIN reg = DOMAIN commands \cup {c}
              /\ \A d \in DOMAIN commands \ {c} : reg[d] = commands[d]
    /\ register_plugin_commands(register_plugin_commands(commands))
          = register_plugin_commands(commands)
    /\ \A id \in {plugins.manager, plugins.bot} \ {NoPlugin} :
          LET plugin == plugins.objects[id]
              once == add_plugin_commands(commands, plugin)
          IN  /\ add_plugin_commands(once, plugin) = once
              /\ DOMAIN once = DOMAIN commands \cup {cmd_weather, cmd_weather_info}
              /\ ( /\ cmd_weather \in DOMAIN commands
                   /\ commands[cmd_weather].role
                          = get_minimum_role(plugin.allowed_roles) )
                 => once = commands

\* C21, its case: the plugin's commands, registered at startup with the
\* floor admin, were registered again and now hold the later requirement
C21_Witness ==
    /\ plugins.bot # NoPlugin
    /\ plugins.objects[plugins.bot].active
    /\ commands[cmd_weather].handler = "handle_plugin_command"
    /\ commands[cmd_weather].role = Unrestricted
    /\ commands[cmd_weather_info].role = Unrestricted

\* C22: when the handler of an authorized command raises, the caller gets
\* the router's one generic error text, whichever handler it was: here the
\* plugin's handle_command raises for a caller whom the registry floor and
\* the plugin's allowed-role-set admit
C22_OneGenericErrorText ==
    [][
        \A u \in Users :
            ( /\ plugins.bot # NoPlugin
              /\ plugins.objects[plugins.bot].active
              /\ check_plugin_access(get_role(roles, u),
                                     plugins.objects[plugins.bot].allowed_roles)
              /\ HandleMessage(u, u, <<Slash(cmd_weather), "boom">>)
              /\ last'.outcome # "Denied" ) =>
                last'.out = <<Send(u, error_message)>>
    ]_vars

\* C23: a reply sent because a handler failed internally does not carry the
\* text of the exception: here, the replies of the cancel_scheduled handler
C23_NoExceptionDetail ==
    last.handler = "_cancel_scheduled_handler" =>
        \A i \in DOMAIN last.out :
            last.out[i].text #
                "Error cancelling scheduled message: no attribute 'delete_scheduled_message'"

C25_LookupIsMatchedToken ==
    [][
        \A u \in Users :
            ( /\ last'.class # "none"
              /\ HandleMessage(u, u, <<Slash(cmd_start) \o <<"!">>>>) ) =>
                /\ last'.class = "command"
                /\ last'.present
                /\ last'.required_role = get_required_role(commands, cmd_start)
    ]_vars

\* C26: free text sent while the fallback plugin is absent, inactive or
\* removed is dropped: the sender is recorded, nothing is sent, no denial or
\* error is reported, no access decision or role change is made, and the
\* registry, the roles and every other table stay as they were
C26_FreeTextDropped ==
    [][ \A u \in Users :
          ( /\ last'.class = "freetext"
            /\ plugins.llm # "active"
            /\ HandleMessage(u, u, <<<<"h", "i">>>>) ) =>
              /\ last' = [NoEvent EXCEPT !.class = "freetext",
                                         !.outcome = "Ignored"]
              /\ lastRole' = NoRoleCall
              /\ users' = db_add_user(users, u, ChatKindOf(u))
              /\ UNCHANGED <<roles, admins, commands, tzSetting, scheduled,
                             denials, deliveries, plugins>>
    ]_vars

\* C26: free text was dropped while the fallback plugin is loaded but
\* removed from the manager, after a command of the same user was denied
C26_Witness ==
    /\ last.class = "freetext"
    /\ last.outcome = "Ignored"
    /\ plugins.llm = "removed"
    /\ denials # {}

\* C27: at startup and after every plugin registration the registry holds
\* each built-in command with its minimum requirement: start and info
\* user; help unrestricted; promote_user and demote_user superadmin;
\* create_poll, broadcast, schedule_message, list_scheduled,
\* cancel_scheduled, settings and set admin
C27_BuiltInFloors ==
    /\ \A c \in {cmd_start, cmd_info} :
          has_command(commands, c) /\ get_required_role(commands, c) = "user"
    /\ has_command(commands, cmd_help)
    /\ get_required_role(commands, cmd_help) = Unrestricted
    /\ \A c \in {cmd_promote_user, cmd_demote_user} :
          has_command(commands, c)
             /\ get_required_role(commands, c) = "superadmin"
    /\ \A c \in {cmd_create_poll, cmd_broadcast, cmd_schedule_message,
                  cmd_list_scheduled, cmd_cancel_scheduled, cmd_settings,
                  cmd_set} :
          has_command(commands, c) /\ get_required_role(commands, c) = "admin"

\* C27: the plugin's commands were registered again after startup, with a
\* requirement other than the one they started with
C27_Witness ==
    /\ has_command(commands, cmd_weather)
    /\ has_command(commands, cmd_weather_info)
    /\ get_required_role(commands, cmd_weather_info) = "superadmin"

-----------------------------------------------------------------------------
(* Properties: the store lock                                              *)

\* C28: store operations of the two threads are atomic under the one lock
\* and never deadlock.  In every state the lock is free or held by a thread
\* that is inside a locked block, a thread is inside a block only while it
\* holds the lock (so at most one is), and no thread waits for a lock it
\* holds itself; in every step a table changes only by the statement of the
\* thread that holds the lock, and the lock passes from thread to thread
\* only through being free
C28_LockedAndDeadlockFree ==
    /\ [](\A a \in Actors :
            LET code == store.code[a]
                inside == code # <<>> /\ Head(code).op # "acquire"
            IN  /\ inside <=> store.lock = a
                /\ (code # <<>> /\ Head(code).op = "acquire") =>
                        store.lock # a)
    /\ [][ /\ <<users, tzSetting, scheduled, roles>>'
                    # <<users, tzSetting, scheduled, roles>> =>
                  /\ store.lock \in Actors
                  /\ store'.lock = store.lock
                  /\ store'.code[store.lock] = Tail(store.code[store.lock])
           /\ store'.lock # store.lock =>
                  (store.lock = "free" \/ store'.lock = "free")
       ]_vars

\* C28: the scheduler waits for the lock while the handler, having stored a
\* broadcast and changed the timezone, is inside the INSERT block of
\* add_entry
C28_Witness ==
    /\ store.lock = "handler"
    /\ Len(store.code["handler"]) = 2
    /\ Head(store.code["handler"]).op = "insert"
    /\ store.code["scheduler"] # <<>>
    /\ Head(store.code["scheduler"]).op = "acquire"
    /\ scheduled # <<>>
    /\ tzSetting = "UTC"

-----------------------------------------------------------------------------
(* Properties: the timezone setting and the due-query                      *)

\* C29: every cycle takes now in the timezone the setting holds when the
\* cycle begins: the due list of the cycle is the due-query's answer for
\* the wall clock read in that timezone, so a cycle that begins after the
\* setting was changed uses the new timezone
C29_TimezoneReadEachCycle ==
    [][ (sched.pc = "head" /\ sched'.pc \in {"resolve", "sleep"}) =>
            \E frac \in NowFracs :
                LET now == NowText(clock, tzSetting, frac)
                    due == get_due_scheduled_messages(scheduled, now)
                IN  IF due = <<>> THEN sched'.pc = "sleep"
                    ELSE sched'.pc = "resolve" /\ sched'.due = due
    ]_vars

\* C29: after the setting was changed to UTC a cycle began whose due list
\* is the answer for now in UTC and not the answer for now in the timezone
\* the bot started with
C29_Witness ==
    /\ tzSetting = "UTC"
    /\ sched.pc = "resolve"
    /\ \E frac \in NowFracs :
          sched.due = get_due_scheduled_messages(scheduled,
                                                 NowText(clock, "UTC", frac))
    /\ \A frac \in NowFracs :
          sched.due # get_due_scheduled_messages(scheduled,
                                         NowText(clock, "Africa/Cairo", frac))

\* C30: at any moment, in the timezone the setting then holds, the
\* due-query returns exactly the rows with sent = 0 whose send-time instant
\* is not after now, whatever the setting was when they were stored
C30_DueQueryByInstant ==
    \A frac \in NowFracs :
        LET now == NowText(clock, tzSetting, frac)
            due == get_due_scheduled_messages(scheduled, now)
        IN  {due[i].id : i \in DOMAIN due}
                = {scheduled[i].id : i \in
                      {j \in DOMAIN scheduled :
                          /\ scheduled[j].sent = 0
                          /\ Instant(scheduled[j].send_time) <= Instant(now)}}

-----------------------------------------------------------------------------
(* Properties: the stores under sequences of writes                        *)

\* C31: in every roles table the bot reaches, listed as rows in any order,
\* no user has two rows and get_role gives admin or superadmin for a user
\* with a row and user for one without; and after one more write of a role
\* of the hierarchy for any user, still no user has two rows, get_role
\* gives the role just written for that user and what it gave before for
\* every other user
C31_OneRoleLastWriteWins ==
    LET assigned == {u \in DOMAIN roles : roles[u] # NoRow}
        orders == {rows \in UNION {[1..n -> [user_id : assigned,
                                             role : {"admin", "superadmin"}]] :
                                      n \in {Cardinality(assigned)}} :
                      /\ {rows[i].user_id : i \in DOMAIN rows} = assigned
                      /\ \A i \in DOMAIN rows :
                            rows[i].role = roles[rows[i].user_id]}
        OneRowEach(rows) ==
            \A i, j \in DOMAIN rows :
                rows[i].user_id = rows[j].user_id => i = j
    IN  /\ orders # {}
        /\ \A rows \in orders :
              /\ OneRowEach(rows)
              /\ \A u \in Users :
                    /\ get_role_rows(rows, u) = get_role(roles, u)
                    /\ get_role(roles, u) \in {"user", "admin", "superadmin"}
                    /\ (u \notin assigned) => get_role(roles, u) = "user"
              /\ \A t \in Users : \A r \in {"user", "admin", "superadmin"} :
                    LET after == add_role_rows(rows, t, r)
                        tbl == add_role(roles, t, r)
                    IN  /\ OneRowEach(after)
                        /\ get_role_rows(after, t) = r
                        /\ get_role(tbl, t) = r
                        /\ \A u \in Users \ {t} :
                              /\ get_role_rows(after, u) = get_role_rows(rows, u)
                              /\ get_role(tbl, u) = get_role(roles, u)
                        /\ \A u \in Users :
                              get_role_rows(after, u) = get_role(tbl, u)

\* C31: both users hold a row, and the latest operation replaced the role
\* the second user held before
C31_Witness ==
    /\ \A u \in Users : roles[u] # NoRow
    /\ lastRole.ok
    /\ lastRole.target = 2
    /\ lastRole.before \in {"admin", "superadmin"}
    /\ lastRole.after # lastRole.before

\* C32: in every step, a stored broadcast that is still in the table keeps
\* its id, audience, text and send time, and its sent flag stays or goes
\* from 0 to 1; the flag changes only in the scheduler's mark step and only
\* for the broadcast being marked; a broadcast leaves the table only in the
\* step of a cancel_scheduled command; and new rows are added after the
\* existing ones, unsent
C32_BroadcastImmutable ==
    [][
        /\ \A i \in DOMAIN scheduled :
              LET row == scheduled[i]
                  kept == {j \in DOMAIN scheduled' : scheduled'[j].id = row.id}
              IN  /\ \A j \in kept :
                        /\ scheduled'[j].target_type = row.target_type
                        /\ scheduled'[j].message = row.message
                        /\ scheduled'[j].send_time = row.send_time
                        /\ scheduled'[j].sent >= row.sent
                        /\ scheduled'[j].sent # row.sent =>
                              /\ sched.pc = "mark"
                              /\ Head(sched.due).id = row.id
                  /\ Cardinality(kept) <= 1
                  /\ kept = {} => last'.handler = "_cancel_scheduled_handler"
        /\ \A j \in DOMAIN scheduled' :
              (\A i \in DOMAIN scheduled : scheduled[i].id # scheduled'[j].id)
                  => /\ scheduled'[j].sent = 0
                     /\ last'.handler = "_schedule_handler"
    ]_vars

\* C32: of two stored broadcasts one was marked sent and the other is still
\* pending, and the latest operation was an admin's cancel_scheduled
C32_Witness ==
    /\ \E i, j \in DOMAIN scheduled :
          scheduled[i].sent = 1 /\ scheduled[j].sent = 0
    /\ last.handler = "_cancel_scheduled_handler"

-----------------------------------------------------------------------------
(* Properties: role changes without an acting user, and rank               *)

\* C33: a promote_user call without an acting user, for a role of the
\* hierarchy, returns true and leaves the target with that role, whatever
\* the target held; a demote_user call without an acting user, for a
\* target above user, returns true and leaves the target one step lower
C33_NoActorNoRankCheck ==
    /\ ( /\ lastRole.op = "promote"
         /\ lastRole.by = NoActor
         /\ lastRole.new_role \in {"user", "admin", "superadmin"} )
       => /\ lastRole.ok
          /\ lastRole.after = lastRole.new_role
          /\ get_role(roles, lastRole.target) = lastRole.new_role
    /\ ( /\ lastRole.op = "demote"
         /\ lastRole.by = NoActor
         /\ lastRole.before # "user" )
       => /\ lastRole.ok
          /\ lastRole.after = DemotedRole(lastRole.before)
          /\ get_role(roles, lastRole.target) = lastRole.after

\* C33: without an acting user the second user was made superadmin
C33_Witness ==
    /\ lastRole.op = "promote"
    /\ lastRole.by = NoActor
    /\ lastRole.target = 2
    /\ lastRole.new_role = "superadmin"
    /\ lastRole.ok
    /\ roles[2] = "superadmin"

\* C35: a promote_user call with an acting user that returns true leaves
\* the target with a rank not below the rank it had before the call
C35_PromoteNeverLowers ==
    ( /\ lastRole.op = "promote"
      /\ lastRole.by # NoActor
      /\ lastRole.ok )
    => IndexOf(ROLE_HIERARCHY, lastRole.after)
          >= IndexOf(ROLE_HIERARCHY, lastRole.before)

\* C36: a promote_user or demote_user command keeps the in-memory admin
\* list in step with the roles table: when before the command the list
\* holds exactly the users whose role is admin or superadmin, it does so
\* after it
C36_AdminListMatchesRoles ==
    [][ ( /\ last'.handler \in {"handle_promote_user", "handle_demote_user"}
          /\ admins = {u \in Users :
                          get_role(roles, u) \in {"admin", "superadmin"}} )
        => admins' = {u \in Users :
                         get_role(roles', u) \in {"admin", "superadmin"}}
    ]_vars

-----------------------------------------------------------------------------
(* Properties: progress of the scheduler                                   *)

\* C34: unless store operations of the loop go on raising for ever, every
\* stored broadcast that is pending when its send time has passed is
\* eventually marked sent or the scheduler is stopped, whatever deliveries
\* Telegram refuses and whatever earlier iterations were cut short
C34_DueEventuallyMarked ==
    \/ []<><<StoreError \/ BeginError>>_vars
    \/ \A id \in 1..MaxMsgs :
          ( /\ id \in DOMAIN scheduled
            /\ scheduled[id].sent = 0
            /\ Instant(scheduled[id].send_time) <= clock )
          ~> ( \/ ~running
               \/ id \in DOMAIN scheduled /\ scheduled[id].sent = 1 )

\* C34: the scheduler still runs and a broadcast is marked sent that was
\* delivered twice, the first time in an iteration cut short before its
\* mark
C34_Witness ==
    /\ running
    /\ \E id \in DOMAIN scheduled :
          /\ scheduled[id].sent = 1
          /\ \E pair \in deliveries.again : pair[1] = id

-----------------------------------------------------------------------------
(* Properties: the two gates of a plugin command                           *)

\* C37: for every non-empty allowed-role-set of roles among user, admin and
\* superadmin, and for a caller of each of the roles the roles table can
\* hold, has_role against get_minimum_role of the set and
\* check_plugin_access against the set decide alike; so for every user of
\* the current roles table
C37_FloorAgreesWithSet ==
    \A S \in (SUBSET {"user", "admin", "superadmin"}) \ {{}} :
        /\ \A role \in {"user", "admin", "superadmin"} :
              LET tbl == [v \in Users |-> IF role = "user" THEN NoRow ELSE role]
              IN  \A u \in Users :
                      /\ get_role(tbl, u) = role
                      /\ has_role(tbl, u, get_minimum_role(S))
                             = check_plugin_access(role, S)
        /\ \A u \in Users :
              has_role(roles, u, get_minimum_role(S))
                  = check_plugin_access(get_role(roles, u), S)

\* C37, its case: the plugin allows admin and superadmin, its command is
\* registered with the floor of that set, and a caller of role admin passed
\* the router's gate and the plugin's own check and was served
C37_Witness ==
    /\ plugins.bot # NoPlugin
    /\ plugins.objects[plugins.bot].active
    /\ plugins.objects[plugins.bot].allowed_roles = {"admin", "superadmin"}
    /\ commands[cmd_weather].role = get_minimum_role({"admin", "superadmin"})
    /\ last.role = "admin"
    /\ last.required_role = "admin"
    /\ last.handler = "handle_plugin_command"
    /\ last.outcome = "Dispatched"
    /\ last.out # <<>>
    /\ last.out[1].text = plugin_reply

-----------------------------------------------------------------------------
(* Properties: validation of a scheduling request                          *)

\* C38: a schedule_message request of an admin whose audience is not one of
\* individuals, groups and all, whose date or time does not parse, or whose
\* send time in the configured timezone is not after the current time, is
\* answered with the reply of that check and leaves the scheduled_messages
\* table as it was (so does one without a message, answered with the
\* usage); any other request appends exactly one row, unsent, with the
\* audience, message and send time of the request; and no other step
\* changes the table
C38_OnlyValidRequestsStored ==
    [][
        /\ \A parts \in ScheduleTexts :
              ( /\ last'.handler = "_schedule_handler"
                /\ parts[1] = Slash(cmd_schedule_message)
                /\ HandleMessage(FirstAdmin, FirstAdmin, parts) ) =>
                  LET reject(text) ==
                          /\ scheduled' = scheduled
                          /\ last'.out = <<Send(FirstAdmin, text)>>
                  IN
                  IF Len(parts) < 5
                  THEN reject("Usage: /schedule_message <target> <YYYY-MM-DD> <HH:MM> <message>")
                  ELSE IF parts[2] \notin {"individuals", "groups", "all"}
                  THEN reject("Invalid target.")
                  ELSE IF parts[3] # "date" \/ ~IsIntText(parts[4])
                  THEN reject("Invalid date/time format.")
                  ELSE IF ParseInt(parts[4]) - TzOffset(tzSetting) <= clock
                  THEN reject("Send time must be in the future.")
                  ELSE /\ Len(scheduled') = Len(scheduled) + 1
                       /\ SubSeq(scheduled', 1, Len(scheduled)) = scheduled
                       /\ LET row == scheduled'[Len(scheduled')] IN
                              /\ row.sent = 0
                              /\ row.target_type = parts[2]
                              /\ row.message = parts[5]
                              /\ Instant(row.send_time) > clock
                              /\ row.send_time.local = ParseInt(parts[4])
                              /\ row.send_time.off = TzOffset(tzSetting)
                       /\ last'.out = <<Send(FirstAdmin, "Message scheduled")>>
        /\ scheduled' # scheduled =>
              /\ last'.handler = "_schedule_handler"
              /\ Len(scheduled') = Len(scheduled) + 1
              /\ SubSeq(scheduled', 1, Len(scheduled)) = scheduled
              /\ scheduled'[Len(scheduled')].sent = 0
    ]_vars

\* C38, its case: one request was stored as a pending broadcast and a later
\* request, whose send time had passed, was refused
C38_Witness ==
    /\ Len(scheduled) = 1
    /\ scheduled[1].sent = 0
    /\ last.handler = "_schedule_handler"
    /\ last.out = <<Send(FirstAdmin, "Send time must be in the future.")>>

-----------------------------------------------------------------------------
(* Properties: cancelling by index                                         *)

\* C39: when an admin sends "cancel_scheduled 1", the table afterwards is
\* the table before without the first row of the pending list (the unsent
\* rows by send time), every other row as it was, when there is a pending
\* row; and the table is unchanged when there is none
C39_CancelRemovesListedRow ==
    [][
        HandleMessage(FirstAdmin, FirstAdmin, <<Slash(cmd_cancel_scheduled), "1">>)
        => IF get_pending_scheduled_messages(scheduled) = <<>>
           THEN scheduled' = scheduled
           ELSE scheduled' =
                   SelectSeq(scheduled,
                             LAMBDA m : m.id # get_pending_scheduled_messages(scheduled)[1].id)
    ]_vars

=============================================================================
